# A verification project for file-service

TLA+ models of the parts of file-service that carry its correctness, TLC runs
that check them on small instances, and TLAPS proofs of the main results for
every instance. Paths are relative to the repository.

## 1. The system

file-service keeps the metadata of files in a SQL table and their contents in an
S3 bucket. Clients never send contents through the service: they get presigned
URLs, upload to the bucket, and ask the service to verify and complete.

| part | code | state | operations |
|---|---|---|---|
| file service | `internal/file` | table `files` (row with version), table `file_outbox_events` | initiate (single, multipart), authorize part, complete (single, multipart), abort, get, list, authorize download, report scan result, delete, clean up expired sessions |
| transactor | `internal/database/transaction.go` | - | begin, commit, roll back |
| object storage | `internal/objectstorage` | objects and multipart uploads of one bucket | presign, stat, delete, create/complete/abort multipart |
| scheduler | `internal/scheduler` | one run of a job per replica | cron firing, start, stop |
| Redis lock | `internal/cache` | one key per lock, with a token and a TTL | try, lock, extend, unlock |
| outbox relay | `internal/app/eventbus.go` | two background loops per replica, the bus connection, `available_at` and `published_at` of the outbox rows | dispatch, retention, start, stop |
| idempotency | `internal/idempotency`, HTTP middleware, gRPC interceptor | Redis record per key: processing, completed, failed | begin, complete, fail |
| transports | `internal/transport/http`, `internal/transport/grpc` | the request in flight | rate limit, authentication, authorization, idempotency, handler |
| authentication, authorization, rate limiter, errors | `internal/auth`, `internal/authorization`, `internal/ratelimit`, `internal/apperror` | - | verify, enforce, allow, refuse |
| outbound clients | `internal/outbound`, `internal/grpcclient` | circuit breaker per upstream | call with retries |
| migration | `internal/migration`, `cmd/migrate` | schema, version, dirty flag, lock | up, down, steps |
| configuration | `internal/config` | the settings of a process | load, validate |
| application | `internal/app`, `cmd/api` | constructed components, started hooks | construct, start, stop |
| health, logging, metrics, build information | `internal/health`, `internal/observability` ... | - | output only |

How they interact. A request passes the transport, reads a row, calls the bucket
and commits a row with its status event in one transaction; several replicas do
this at once and share only table, outbox, bucket and Redis. The scheduler of
every replica fires the cleanup job, which takes the Redis lock and runs the same
kind of read - call - commit sequence over a batch of expired sessions. The relay
of every replica publishes the committed events. On the way to the service a
request asks Redis (rate limit, idempotency) and two other services
(authorization, applications) through the outbound clients. A process builds all
this from its configuration, after it has migrated the schema, and takes it down
in the opposite order.

What is hard about it: a row is read, then the bucket is called, then the row is
written, with nothing locked in between; the optimistic check uses the version
the *client* sent; the bucket is not part of the transaction, so every crash
leaves one of the two ahead; presigned URLs act at any later time; cleanup races
requests for the same session; locks, records, leases and contexts end by time;
a result is replayed to a caller whose rights may have changed; replicas migrate,
start, stop and crash next to each other. `PROJECT.json` lists these hazards at
their lines.

What makes each part correct:

- file service: every committed row version is announced exactly once and in
  order; no update overwrites a change it did not see; when
  scanning is required, download URLs are given only for versions that were
  scanned and found clean (a presigned PUT that is still valid can replace the
  object afterwards); contents are removed only after the removal was announced; abandoned uploads are released in the store and
  leave `pending_upload` in the end.
- scheduler and lock: one cleanup at a time; a dead holder does not stop it.
- outbox relay: every committed event is published at least once, none is
  deleted before; nothing uses the bus after it is closed (`NothingUsesClosed` of
  `Application`).
- requests: one execution per key while its record lives; a result is given only
  for the request it was computed for, to a caller who is entitled to it now; no
  key is lost for good.
- outbound clients: a call that is not safe to repeat is sent once; every call
  ends; an open breaker closes again when the upstream has recovered.
- application: nothing serves without what rate limiting, idempotency, events,
  authorization and application checks work on, when they are switched on, or
  before the schema is complete; nothing is closed while it is used; a stop ends.

## 2. Modules

| module | models | role |
|---|---|---|
| `FileLifecycle` | what consumers of the events may rely on | abstract specification |
| `FileService` | file service, transactor, object storage | detailed specification, implements `FileLifecycle` |
| `FileServiceProofs` | | proofs about `FileService`: its inductive invariant, the refinement |
| `FileHistoryProofs` | | proofs about `FileService` that build on them: uploads, releases, downloads |
| `CleanupLock` | scheduler and Redis lock on several replicas | specification |
| `CleanupLockProofs` | | proofs about `CleanupLock` |
| `RequestPipeline` | transports, idempotency, authentication, authorization, rate limiter, error model | specification |
| `RequestPipelineProofs` | | proofs about `RequestPipeline` |
| `OutboundCall` | HTTP and gRPC clients with their breakers | specification |
| `OutboundCallProofs` | | proofs about `OutboundCall` |
| `EventRelay` | outbox relay on several replicas | specification |
| `EventRelayProofs` | | proofs about `EventRelay` |
| `Configuration` | what `Validate` accepts | operators, extended by `Application` |
| `Application` | life of the processes, migration, constructors, hooks | specification |
| `ApplicationProofs` | | proofs about `Application` and `Configuration` |
| `MC...` | | symmetry sets and inputs for TLC |

The modules meet where the code does: `InsertOutbox` of `EventRelay` is the event
that `Insert` and `Update` of `FileService` append; `Handle` of `RequestPipeline`
stands for a whole handler of `FileService`; `Uses` of `Application` names what
the machines of the other modules need.

### FileService

A handler is cut into its external calls; each call is one action, and what the
handler keeps in local variables between two calls (`v`, `expected`) is the
record `reqs[r]`. The first action of a handler is its validation, its access
checks and its first read: these have no effect, and a request that one of them
ends is `ReadOnly`. So `Delete` (read and decide), `MarkDeleting` (first
transaction), `RemoveObject` (bucket) and `MarkDeleted` (second transaction)
together are `Service.Delete`. The cleanup job is the same with `jobs[c]`: the
rows it listed and has not finished.

State: `rows` is the table, with the columns that decide something (key, mode,
status, scan status, version); `outbox` the committed events of each file;
`objects` what lies under the object key of a file (nothing, an object that
matches the declared size and checksum, one that does not); `multipart` its
multipart upload (none, open, parts stored that add up or do not, closed);
`expiry` the order in which sessions expired; `putURLs`, `partURLs` and
`downloads` what clients hold.

`Insert` and `Update` are the transactions, row and event together, because
`Transactor.Within` commits both or none. `Update` keeps the two ways the code
computes a version apart: the statement adds one to the stored version, the event
carries `expected + 1`.

Failures. A failed call, one that takes effect and whose answer is lost, a
cancelled context and a crash all end a request where it stands (`Interrupt`).
Two places do more than return and have actions of their own: the failed insert
of a multipart initiation, which aborts the upload (also when the insert had
committed), and the cleanup loop, which goes on with its next row.

Outside the repository: S3 (removing an absent object succeeds; completing or
aborting an upload that is gone fails; a presigned PUT stores exactly the
declared length and checksum metadata; part URLs do not fix sizes), and SQL (a
transaction is atomic, the unique key is enforced, `version = ?` is evaluated
against the committed row).

`AnyExpected` says whether clients may send versions they were never given. The
service cannot know; the results below say which of them depend on it.

### FileLifecycle

Six transitions of a versioned state, each publishing its event. `Verify` is
deliberately as wide as the code: completing a file looks at the object and not
at the status, so an expired, deleting or deleted file becomes ready again if a
matching object is in the bucket.

### CleanupLock

Replicas fire the job, take the key under a fresh token, work, and release it.
Time is discrete and counted down: what is left of the context of a run
(`Timeout`, 10 minutes in the code) and of the TTL of the key (`TTL`, 11
minutes). `TryLockFails` covers a lost reply after the key was set; `LateUnlock`
an unlock command that is executed after its client gave up; `Exit` a crash or a
stop that did not wait; `Forget` a Redis that loses its data. The sample job is
the same machine with 30 seconds and one minute. `SkipIfStillRunning` is taken to
allow the next run after a panic (see the observations). A run without Redis (`HasLocker = FALSE`) works
at once.

### RequestPipeline

A request takes one step per stage, in the order in which the server registers
its middlewares (`HTTPStages`) or interceptors (`GRPCStages`, `StreamStages`); the
local checks before them (`IdempotencyKey`, `CORS`, `RequireJSON`) have no effect
and are one step with the arrival. `Begin` and `Persist` are the two halves of
`IdempotencyExecution`; between them the handler runs, panics or dies with its
process. What is left of the request's context and of the record's TTL counts
down, so a slow handler and an expiring record meet in every order the timers
allow. `subject` is what the checks found out and `cred` what the client sent; the
ghosts `origin` (what a result was computed for) and `entitled` (was the
permission granted at some time while the request was in flight) are read by the
properties only. "failed" stands for every error of the service behind the
handler, transient ones included: the code stores them all.

External: the Redis scripts of the platform library (a key is taken if absent;
complete and fail change a record only for its owner), the authorization
service, token verification.

### OutboundCall

One machine for both transports; where they differ there are two operators
(`HTTPRepeats` and `GRPCRepeats`, `HTTPExcluded` and `GRPCExcluded`). The breaker is
asked once per call, around all its attempts; a call that is malformed
(`Malformed`: a path that is not relative) fails inside it and is counted. An
application's own error over gRPC ("refused") is excluded. gobreaker is external: counts are
kept per state, results of calls from an earlier state are ignored, half-open
admits one trial, an excluded result is not counted. Whether it asks `IsExcluded`
about a call without error is not settled by this repository, so `asks` is
either: the properties hold both ways.

### EventRelay

The two loops of `fileEventRuntime`. `available_at` and `published_at` are timers
that count down. The dispatcher and the cleaner are the platform library's,
modelled from their configuration: rows are claimed for a lease, published one by
one, marked or delayed; a row marked by another replica stays marked.

### Configuration and Application

A configuration is the set of switches that are on, the upstreams that have a
name, and the sections whose values are unusable; `Validate` is then a predicate,
section by section in the order of the code. Each constructor is an operator that
yields what it opens or "failed"; the first backend that does not answer is a
choice of the environment. `Unchecked` are the settings `Validate` never looks at
and a constructor refuses. The log is opened before the migration, everything else
after it. Hooks start in the order in which `New` appends them
and stop in the opposite order (fx); a start that fails is rolled back. A
migration notes its version as dirty, applies it, and clears the flag, under a
lock of its session; replicas and an operator compete for it.

## 3. Runs

| run | instance | shows |
|---|---|---|
| `faults` | 1 file, 2 requests, 1 cleaner, both modes, scanning, faults, up to version 6 | `TypeOK`, `OutboxMirrorsTable`, `NoLostUpdate`, `DownloadsWereScanned`, `UnfinishedUploadsReleased`, `RemovalsAnnounced`, `ImplementsLifecycle` |
| `sharing` | 2 files, 2 keys, 2 requests, multipart, batches of two, any versions sent, no faults, up to version 4 | `OutboxMirrorsTable`, `NoOrphanedUpload`, `UnfinishedUploadsReleased` |
| `cleanup` | 2 files, 2 keys, 2 requests, single mode, batches of one, faults, fair | `ExpiredUploadsAreCleaned` |
| `stuck` | 1 file, multipart, no faults, fair | *violated*: finding 1 |
| `lostobject` | 1 file, single mode, no faults | *violated*: finding 2 |
| `exclusion` | 3 replicas, 4 tokens, timeout 2, TTL 3 | `OneRunAtATime`, `LockOutlivesRun` |
| `recurrence` | 2 replicas, Redis may forget, fair | `LockIsFreed`, `CleanupKeepsRunning` |
| `requests` | 2 requests of 9 kinds, 1 key, timeout 1, processing TTL 2, result TTL 2, failure TTL 1, fair | `PipelineTypeOK`, `OneExecutionPerKey`, `ResultsBelongToRequest`, `ResultsOnlyForEntitled`, `KeysAreFreed` |
| `outbound` | 2 calls of 6 kinds, 2 attempts, threshold 2, fair | `CallTypeOK`, `UnsafeCallsSentOnce`, `NoBodyLost`, `EveryCallEnds`, `CallsGetThrough` |
| `resend` | the same | *violated*: finding 3 |
| `application` | 2 replicas, operator, 1 migration, 18 configurations, fair | `AppTypeOK`, `NothingUsesClosed`, `RunningIsWired`, `SchemaCurrent`, `StopEnds` |
| `relay` | 2 events, 2 replicas, batches of 2 and 1, lease 2, delay 1, retention 3, fair | `RelayTypeOK`, `NoEventDropped`, `OutboxDrains` |

Bounds. The properties of a file relate its own row, events and object, and
handlers of different files share nothing but the idempotency key and the
cleanup batch; so one file with two requests and a cleanup run covers the races,
and two files and keys are used where key or batch matter. Version 6 is enough
for: create, complete, scan, delete (two versions), and one more completion after
it. A client's version is bounded by `MaxVersion - 2` so that a delete never
meets the bound between its two transactions. `Timeout = 2`, `TTL = 3` keep the
one relation that matters, with a tick before and after each limit; three
replicas allow a holder, a late unlock of an earlier run and a competitor.

Two slots are enough where slots are used again and what races is a pair: a
request and its retry, or another caller's with the same key; a trial call and a
late one; a replica and the one that takes over its rows. One key is enough
because records of different keys never meet; two users, a service account and
callers that are refused are there for what the checks must tell apart. The
durations of `requests` keep the order of the defaults (10 s timeout < 30 s
processing TTL; failures are forgotten before results), those of `relay` lease >
retry delay and retention longest. Two attempts and a threshold of two have a
first, a last and a pause, and a failure that does not trip. One migration has a
state before, during and after; a version in between adds nothing to the
property, which asks for the last. The eighteen configurations are a small one,
the full one, ones that differ from them in a setting that something else depends
on, and three with a setting that only a constructor refuses (the log level, the
time zone, the DSN); one replica carries load, the other competes for the schema.

Fairness. Requests are answered or time out (weak fairness of each handler's
steps). Cron fires again and again, a cleanup run goes on, and neither the
database nor the store refuses one operation forever while it would be accepted
(strong fairness of the two steps that can fail). For the lock: time passes,
calls return, replicas are restarted, and Redis does not lose every TryLock.
Nothing is assumed about clients. `requests`: the calls of an HTTP request end
with its context and a result is stored within its two seconds, so these steps
are fair while a timer runs; a gRPC call has no deadline and no fairness.
`outbound`: the client's timeout and the timers end attempts, pauses and the open
state, and both upstreams keep being called (strong fairness of a start, since an
open breaker interrupts it). `application`: stop hooks run and work ends; the stop
timeout is not assumed to come, so `StopEnds` shows that no hook needs it; a gRPC
call, which only its client limits, is taken to end. `relay`: loops run on their
tickers and replicas are restarted; `OutboxDrains` is claimed once crashes,
outages and lost acknowledgements have ended, and not before.

### Findings

1. `stuck`: cleanup aborts the multipart upload of an expired row and skips the
   row if that fails (`service.go:304`). If the upload was already assembled and
   the verification then refused it, or it was aborted and the commit failed, the
   store does not know it any more: the row stays `pending_upload` forever and
   stays at the head of every batch.
2. `lostobject`: cleanup deletes the object of an expired single upload before it
   checks the version (`service.go:306`), while `CompleteUpload`, which does not
   look at the expiry, has verified the object and then commits `ready`: a ready
   file without contents.

3. `resend`: the HTTP client repeats a POST because its context carries an
   idempotency key (`internal/outbound/http.go:99`) and sends only the headers its
   caller gave it: the key does not go with the request, unlike in the gRPC
   client (`internal/grpcclient/client.go:178`), and the upstream cannot tell the
   repetition from a new request.

### Observations

Met while modelling; nothing in the repository promises otherwise, so no run
states them.

- `Validate` does not relate the request timeout to the processing TTL;
  `OneExecutionPerKey` needs the first to be smaller. gRPC calls have neither a
  deadline of the server nor a rate limit, and may outlive their record.
- Every failure, a 503 or a cancelled request too, is replayed to retries until
  the failure TTL is over.
- `grpcError` maps a stale version to `Internal`; the health service's `List`
  always answers serving.
- The tokens of the local signer name no tenant, so `enforceTenant` refuses them
  for every tenant.
- `AbortMultipart` after a failed insert runs without the request's deadline.
- An event bus without a database passes `Validate`; the start hook then fails.
- `Validate` leaves to the constructors: the log level, the DSN, the time zone and
  the cron expressions (parsed with cron off too), the trusted proxies, the
  endpoints of the object storage, the targets of the upstreams, and what the
  verifier of identity tokens demands. All but the log level are found out only
  after the startup migration has run.
- Cron without Redis is accepted, and every replica then runs the jobs without a
  lock; so is object storage without a database.
- `Recover` is the outer wrapper of a job and `SkipIfStillRunning` the inner one
  (`scheduler.go:21`). If the cron library does not give the permit back when a
  job panics, a job that panicked once is skipped on that replica until it is
  restarted; `CleanupKeepsRunning` assumes it does.
- A malformed path counts as a failure of the upstream for the breaker, which can
  so be opened by its callers.
- A migration that is killed half way leaves a dirty version that no command of
  the repository clears. Replicas that wait for a long migration of another one
  give up after the library's lock timeout.
- A server whose `Serve` returns an error is only logged; the process stays up.
- A dispatch run may outlast its lease, so an event can be published twice; the
  stream's window for duplicate ids absorbs that.

## 4. Proofs

Every invariant and action property of the passing runs, and the refinement, is
also a theorem, for every value of the constants that the assumptions allow:

| assumption | says | why |
|---|---|---|
| `ConstantsAssumption` | finitely many file ids, `MaxVersion >= 3`, any keys, requests, cleaners, modes, batch size | a table is finite; three versions are a creation and a deletion |
| `LockAssumption` | `Timeout < TTL`, any replicas and tokens | 10 and 11 minutes in the code |
| `PipelineAssumption` | `RequestTimeout < ProcessingTTL`, permissions belong to principals, inputs have a known transport and a key the checks tell apart | the defaults; requirements have the principal's scope; what a client can send |
| `OutboundAssumption` | 1 to 5 attempts, a positive threshold, any kinds of call | limits of the configuration |
| `RelayAssumption` | finitely many events, positive durations and batch sizes | at any time finitely many were committed |
| `ApplicationAssumption` | the operator is no replica, at least one migration, well-formed configurations | - |

| theorem | property | also assumes |
|---|---|---|
| `TypeCorrect` | `TypeOK` | |
| `OutboxIsExact` | `OutboxMirrorsTable` | |
| `UpdatesAreFresh` | `NoLostUpdate` | `~AnyExpected` |
| `RemovalsAreAnnounced` | `RemovalsAnnounced` | |
| `RefinesLifecycle` | `ImplementsLifecycle` | `~AnyExpected` |
| `UploadsAreOwned` | `NoOrphanedUpload` | `~Faults` |
| `EndedUploadsAreReleased` | `UnfinishedUploadsReleased` | |
| `DownloadsAreScanned` | `DownloadsWereScanned` | `~AnyExpected` |
| `LockTypeCorrect`, `LockIsHeld`, `RunsAreExclusive` | `LockTypeOK`, `LockOutlivesRun`, `OneRunAtATime` | `HasLocker` and `~RedisForgets`, in the properties |
| `PipelineTypeCorrect`, `KeysAreExclusive`, `ResultsBelong`, `ResultsAreEntitled` | `PipelineTypeOK`, `OneExecutionPerKey`, `ResultsBelongToRequest`, `ResultsOnlyForEntitled` | |
| `CallTypeCorrect`, `UnsafeCallsAreSentOnce`, `BodiesAreClosed` | `CallTypeOK`, `UnsafeCallsSentOnce`, `NoBodyLost` | |
| `AppTypeCorrect`, `WorkFindsResources`, `ServesWired`, `SchemaIsCurrent` | `AppTypeOK`, `NothingUsesClosed`, `RunningIsWired`, `SchemaCurrent` | |
| `RefusedForUncheckedOnly` | (no run) | |
| `RelayTypeCorrect`, `EventsAreDelivered` | `RelayTypeOK`, `NoEventDropped` | |

`~AnyExpected` is needed: with a guessed version, a handler that read version n
may commit over version n + 1. `~Faults` is part of what `NoOrphanedUpload` says:
a crash between creating an upload and inserting its row leaves it behind.

Each component has an inductive invariant, checked with TLC before it was proved,
because hardly any property is inductive as it stands.

**FileService (`IInv`).** The safety properties speak of rows that were read some
calls ago. What ties an old read to the present is the outbox. It only grows, and
event n tells version n; so "the outbox event at the version of `v` tells what
`v` tells" (`SnapshotOf`) is true of a row when it is read and can never become
false. `IInv` says so of every row a request or a cleanup run carries, together
with: its key and mode are those of the current row (no update changes them), the
version the client sent was given out (if `~AnyExpected`), the statuses a handler
has checked are the statuses of its snapshot, and an id that is about to be
inserted has no row yet. From it:

- *fresh updates*: if the current version equals the version that is checked,
  the snapshot's event is the last event, which tells the current row;
- *refinement*: so the transition that is committed is the one the handler
  decided on, and each commit maps to one step of FileLifecycle and every other
  action to a stutter;
- *announced removals*: a request at `remove_object` carries a snapshot with
  status deleting, so an event in the outbox says so.

Three kinds of lemma carry these proofs: what the transactions do to the history
(`UpdatesExtend`, `InsertsExtend`, `ExtendsIsStable`), what a request step keeps
if it only returns, goes on, begins or commits (`ReturnKeeps`, `GotoKeeps`,
`BeginKeeps`, `CommitKeeps`), and types.

On top of `IInv`:

- *owned uploads*: `NoOrphanedUpload` is inductive relative to `IInv`; rows stay
  (`RowsStay`), and without faults a request leaves its insert only with a row or
  towards its abort (`OwnersKept`).
- *released uploads* (`ReleaseInv`): a request that is about to commit an abort,
  and a cleanup run that is about to commit an expiry, have closed the upload
  (`AbortsClosed`, `JobsClosed`), and a closed upload stays closed (`ClosedStays`),
  whatever versions clients send. That the row a run commits is the row it has
  released needs the order of the batch to be strict (`ExpiryOrder`).
- *scanned downloads* (`ScanInv`): in FileLifecycle "clean" is reached in one way
  only, from ready and pending, directly before. Since the table refines it, the
  two events are next to each other wherever a clean one is; and a download is
  authorised for a row that the outbox tells.

**CleanupLock (`LockInv`)** adds to the property that tokens are unique among runs
and unlock commands on their way: only so can nobody else release the key of a
run that still works.

**RequestPipeline (`PipelineInv`).** Per request: it is in a stage of its own
transport, its subject is the sender or nobody, and what it has passed is what the
stages before it check (`LiveOK`); so a request past authorization was entitled. Per
record: a stored result has the hash of the request it was computed for, and the
hash covers caller, operation, tenant and input, so a replay to an equal hash is a
replay to an equal request (`RecordsInv`). Between them (`Held`): the record of an
HTTP request in its handler is its own, still processing, and has more time left
than the request: both count down together and `RequestTimeout < ProcessingTTL`. Two
requests cannot both own one record.

**OutboundCall (`CallInv`).** The attempts of a call stay within its policy, and a call
that pauses has one left (`WithinPolicy`); the policy of a call that may not be repeated
is one attempt, so it never pauses. No body is open during an attempt or a pause: each
iteration of the loop closes what it does not return. The breaker part (`BreakerInv`)
bounds its counts.

**EventRelay (`RelayInv`).** What a replica has had acknowledged and not yet marked
(`acked`) is in the stream; the stream only grows; so whoever marks, however late, marks
an event that is there.

**Application (`AppInv`).** Per process (`HooksOK`): whatever takes work in or has work
is among the first `next` hooks, and everything behind one of these hooks is open. The
hooks of what a server uses come before its own (`Places`), so the stop order closes
nothing that is used, wherever a start failed. `AllOrFailed` says that a construction
that succeeds opens what the configuration asks for; together with
`RoleOK` (only a valid configuration gets past loading) this is `RunningIsWired`, except
for the event bus, whose start hook is what demands the database.
`RefusedForUncheckedOnly` says what `Validate` leaves to the constructors: where the
backends answer, they refuse a valid configuration exactly if it has a bad setting
among `LookedAt`, the unchecked settings its switches make them read. For the schema: the lock has the
process that migrates as its holder (`LockInv`), and a replica past its migration counts
on a complete schema (`CurrentInv`), which no migration up can find something to apply
to.

Only model-checked: liveness (`ExpiredUploadsAreCleaned`, `LockIsFreed`,
`CleanupKeepsRunning`, `KeysAreFreed`, `EveryCallEnds`, `CallsGetThrough`,
`StopEnds`, `OutboxDrains`), which needs fairness and ENABLED and is out of the
prover's reach, and of course the three violations.

## 5. Not modelled

- Validation of names, sizes and checksums (early returns without effect), the
  contents of requests and responses, list filters and paging, error codes and
  messages, request ids.
- Health checks: two pings whose result is the answer. Metrics, logs and traces
  beyond opening and closing: output only. Defaults and decoding of single
  settings. Rewriting of the migration URL and of the DSN: strings.
- The routes outside `/api/v1` (`/live`, `/ready`, `/metrics`, pprof, Swagger).
- `docs/docs.go`: generated text. `Locker.Lock`, `Lock.Extend`, `Service.Issue` and
  `Service.Authenticate` have no caller in the program.

## 6. Plan

1. Safety halves of the liveness properties, as theorems: what can stand in the way of
   a stop, an expiry or a drain (for `StopEnds`, that every constructed state before
   the end has a stop step or work in progress, without ENABLED).
2. An action property of `RequestPipeline`: a stored result changes only by expiry.
