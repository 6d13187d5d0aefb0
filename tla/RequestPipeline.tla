--------------------------- MODULE RequestPipeline ---------------------------
(***************************************************************************)
(* What happens to a request between the socket and the file service: the  *)
(* middlewares of internal/transport/http, the interceptors of             *)
(* internal/transport/grpc and the Redis records of internal/idempotency.  *)
(* A request goes through the stages of its transport in order; a stage is *)
(* one step, so requests of all replicas interleave at every call to       *)
(* Redis, to the authorization service and to the file service.            *)
(*                                                                         *)
(* Time is counted in whole units.  What is left of the deadline of an     *)
(* HTTP request and of the TTL of a record counts down.  A gRPC request    *)
(* has no deadline of the server's own.                                    *)
(***************************************************************************)
EXTENDS Naturals, Sequences

CONSTANTS
  Requests,        \* slots for requests in flight; a slot is used again
  Keys, NoKey,     \* valid idempotency keys, and none
  BadKey,          \* an idempotency key that is not valid
  Inputs,          \* the requests clients send
  Users,           \* subjects of valid tokens
  Nobody,          \* no verified caller
  Permissions,     \* <<subject, action>> pairs the authorization service grants at first
  Revocable,       \* the ones it withdraws and grants again
  AuthzEnabled,    \* cfg.Authorization.Enabled
  IdempotencyEnabled,
  IdempotentOps,   \* cfg.Idempotency.HTTPPaths and GRPCMethods
  PSKOps, SkipOps, \* cfg.Auth.PSK and cfg.Auth.Skip paths and methods
  LimiterEnabled, FailOpen,
  RequestTimeout,  \* cfg.HTTP.RequestTimeout
  PersistTimeout,  \* the 2 seconds a result may take to be stored
  ProcessingTTL, ResultTTL, FailureTTL

\* The default configuration has 10s, 2s, 30s, 24h and 5m.
ASSUME PipelineAssumption ==
  /\ NoKey \notin Keys /\ BadKey \notin Keys
  /\ Nobody \notin Users /\ "psk" \notin Users /\ Nobody # "psk"
  /\ {AuthzEnabled, IdempotencyEnabled, LimiterEnabled, FailOpen} \subseteq BOOLEAN
  /\ {RequestTimeout, PersistTimeout, ProcessingTTL, ResultTTL, FailureTTL}
        \subseteq Nat \ {0}
  /\ RequestTimeout < ProcessingTTL
  /\ Revocable \subseteq Permissions
  /\ \A p \in Permissions : p[1] \in Users \cup {"psk"}
  /\ \A i \in Inputs : /\ i.transport \in {"http", "grpc", "stream"}
                      /\ i.key \in Keys \cup {NoKey, BadKey}

VARIABLES
  req,      \* the request in each slot
  record,   \* the Redis record of each idempotency key
  grants    \* the permissions the authorization service grants now

vars == <<req, record, grants>>

-----------------------------------------------------------------------------
(* The operations and what they require *)

\* The routes of the HTTP server below /api/v1.
HTTPOps == {"version", "me", "initiate", "initiate_multipart", "authorize_part",
  "complete_multipart", "abort_multipart", "complete", "report", "get", "list",
  "download", "delete"}

\* The permission a route requires; the routes left out require none.
HTTPRequirement ==
  [op \in HTTPOps \ {"version", "me"} |->
     CASE op = "report" -> "report" [] op = "get" -> "read" [] op = "list" -> "list"
       [] op = "download" -> "download" [] op = "delete" -> "delete"
       [] OTHER -> "upload"]

\* The same for the methods of the gRPC service, which has no list.
GRPCRequirement == [op \in (DOMAIN HTTPRequirement) \ {"list"} |-> HTTPRequirement[op]]

Requirement(i) == IF i.transport = "http" THEN HTTPRequirement
                  ELSE IF i.transport = "grpc" THEN GRPCRequirement
                  ELSE << >>

Protected(i) == i.op \in DOMAIN Requirement(i)

\* Fault: the idempotency middleware is registered before the checks.
HTTPStages_IdempotencyFirst ==
  <<"limit", "authn", "begin", "authz", "user", "handler">>

\* The order in which the HTTP server registers its middlewares.
HTTPStages == <<"limit", "authn", "authz", "user", "begin", "handler">>

\* The order of the interceptors of unary calls, which has no rate limit.
GRPCStages == <<"authn", "authz", "begin", "handler">>

\* Streams (health watch, reflection) are only authenticated.
StreamStages == <<"authn", "handler">>

Stages(t) == CASE t = "http" -> HTTPStages [] t = "grpc" -> GRPCStages
               [] OTHER -> StreamStages

After(t, stage) ==
  LET s == Stages(t) IN s[1 + CHOOSE n \in DOMAIN s : s[n] = stage]

-----------------------------------------------------------------------------
(* Records and requests *)

NoRecord == [state |-> "none"]

NoRequest == [stage |-> "idle"]

Refused(error) == [stage |-> "refused", error |-> error]

InFlight(r) == req[r].stage \notin {"idle", "refused", "answered"}

\* Does a timer run for the request: its context or the one its result is stored in?
Deadline(r) == InFlight(r) /\ (req[r].in.transport = "http" \/ req[r].stage = "persist")

\* Who sends a request, by its credential.  Ghost: what the checks must find out.
Sender(i) == IF i.cred \in Users \cup {"psk"} THEN i.cred ELSE Nobody

\* What a result belongs to.  Ghost: the fingerprint must tell these apart.
Identity(r) == [subject |-> req[r].subject, transport |-> req[r].in.transport,
                op |-> req[r].in.op, tenant |-> req[r].in.tenant, body |-> req[r].in.body]

\* Fault: the hash leaves the caller out.
Fingerprint_NoSubject(r) ==
  <<req[r].in.transport, req[r].in.op, req[r].in.tenant, req[r].in.body>>

\* The hash of caller, method, route and body; the body names the tenant.
Fingerprint(r) ==
  <<req[r].subject, req[r].in.transport, req[r].in.op, req[r].in.tenant, req[r].in.body>>

Outcomes == {"ok", "failed", "invalid", "denied"}

Errors == {"invalid", "limited", "denied", "unavailable", "in_progress", "conflict", "internal"}

\* The shape of the slots, the records and the grants.
PipelineTypeOK ==
  /\ \A r \in Requests :
       \/ req[r] = NoRequest
       \/ \E e \in Errors : req[r] = Refused(e)
       \/ /\ req[r].stage \in {"limit", "authn", "authz", "user", "begin", "handler",
                               "persist", "answered"}
          /\ req[r].in \in Inputs
          /\ req[r].subject \in Users \cup {"psk", Nobody}
          /\ req[r].left \in 0..(IF req[r].stage = "persist" THEN PersistTimeout
                                                             ELSE RequestTimeout)
          /\ req[r].answer \in Outcomes
  /\ \A k \in Keys : record[k] # NoRecord =>
       /\ record[k].state \in {"processing", "completed", "failed"}
       /\ record[k].owner \in Requests
       /\ record[k].ttl > 0
       /\ record[k].state = "failed" => record[k].outcome # "ok" /\ record[k].ttl <= FailureTTL
  /\ grants \subseteq Permissions

Init ==
  /\ req = [r \in Requests |-> NoRequest]
  /\ record = [k \in Keys |-> NoRecord]
  /\ grants = Permissions

-----------------------------------------------------------------------------
(* Local checks *)

\* A key is optional; one that is sent must be valid, on every transport.
KeyAccepted(i) == i.key # BadKey

\* A browser's origin must be listed; no origin, no CORS.  A preflight ends here.
OriginAccepted(i) == i.origin # "other"

\* A POST with a body must say it is JSON.
BodyAccepted(i) == i.json

EdgeAccepts(i) ==
  /\ KeyAccepted(i)
  /\ i.transport = "http" => OriginAccepted(i) /\ BodyAccepted(i)

Granted(i, g) == Protected(i) => <<Sender(i), Requirement(i)[i.op]>> \in g

\* The deadline of an HTTP request starts before the checks.
NewRequest(i) ==
  [stage |-> Stages(i.transport)[1], in |-> i, subject |-> Nobody, acquired |-> FALSE,
   left |-> IF i.transport = "http" THEN RequestTimeout ELSE 0,
   answer |-> "ok", origin |-> <<>>, entitled |-> Granted(i, grants)]

\* A client sends a request, for the first time or again.
Arrive(r, i) ==
  /\ ~InFlight(r)
  /\ req' = [req EXCEPT ![r] = IF EdgeAccepts(i) THEN NewRequest(i)
                                               ELSE Refused("invalid")]
  /\ UNCHANGED <<record, grants>>

\* The response is a result, and no later stage runs.  Ghost: origin is what the
\* result was computed for.
Answer(r, answer, origin) ==
  req' = [req EXCEPT ![r].stage = "answered", ![r].answer = answer, ![r].origin = origin,
                     ![r].left = 0, ![r].acquired = FALSE]

\* Fail: the request is aborted with an error, and nothing of it is kept.
Refuse(r, error) == req' = [req EXCEPT ![r] = Refused(error)]

Pass(r) == req' = [req EXCEPT ![r].stage = After(req[r].in.transport, @)]

-----------------------------------------------------------------------------
(* Rate limit, authentication, authorization *)

\* Redis decides; when it cannot, the configuration does.  "limit" stands for the
\* limits by address and by route, "user" for the one by caller.
RateLimit(r) ==
  /\ req[r].stage \in {"limit", "user"}
  /\ \/ Pass(r)   \* disabled, no key to count, allowed, or failed open
     \/ /\ LimiterEnabled /\ (req[r].stage = "user" => req[r].subject # Nobody)
        /\ \/ Refuse(r, "limited")
           \/ ~FailOpen /\ Refuse(r, "unavailable")
  /\ UNCHANGED <<record, grants>>

\* The shared key must match.
VerifyPSK(i) == i.cred = "psk"

\* The verifier may also refuse a good token: keys not fetched, token expired.
Verify(i) == i.cred \in Users

\* The shared key where it is configured, else nothing where authentication is
\* skipped, else a bearer token.
Authenticate(r) ==
  LET i == req[r].in
      Caller(s) == req' = [req EXCEPT ![r].subject = s, ![r].stage = After(i.transport, @)]
  IN
  /\ req[r].stage = "authn"
  /\ IF i.op \in PSKOps THEN IF VerifyPSK(i) THEN Caller("psk") ELSE Refuse(r, "denied")
     ELSE IF i.op \in SkipOps THEN Caller(Nobody)
     ELSE (Verify(i) /\ Caller(i.cred)) \/ Refuse(r, "denied")
  /\ UNCHANGED <<record, grants>>

\* Enforce: the authorization service grants, refuses or does not answer.
Authorize(r) ==
  LET i == req[r].in
      allowed == <<req[r].subject, Requirement(i)[i.op]>> \in grants
  IN
  /\ req[r].stage = "authz"
  /\ IF ~AuthzEnabled \/ ~Protected(i) THEN Pass(r)
     ELSE \/ allowed /\ Pass(r)
          \/ ~allowed /\ Refuse(r, "denied")
          \/ Refuse(r, "unavailable")
  /\ UNCHANGED <<record, grants>>

-----------------------------------------------------------------------------
(* Idempotency *)

Remembered(r) == /\ IdempotencyEnabled
                 /\ req[r].in.key # NoKey
                 /\ req[r].in.op \in IdempotentOps

\* Fault: the record of a request in progress gets the TTL of a failure.
Processing_FailureTTL(r) == [state |-> "processing", fp |-> Fingerprint(r), owner |-> r,
                             outcome |-> "ok", origin |-> <<>>, ttl |-> FailureTTL]

Processing(r) == [state |-> "processing", fp |-> Fingerprint(r), owner |-> r,
                  outcome |-> "ok", origin |-> <<>>, ttl |-> ProcessingTTL]

Acquire(r) ==
  /\ record' = [record EXCEPT ![req[r].in.key] = Processing(r)]
  /\ req' = [req EXCEPT ![r].acquired = TRUE, ![r].stage = After(req[r].in.transport, @)]

\* A stored result answers the request in place of an execution.
Replay(r, rec) == Answer(r, rec.outcome, rec.origin)

\* Fault: asking for a key whose request is in progress renews its record.
Begin_Renews(r) ==
  /\ req[r].stage = "begin"
  /\ IF ~Remembered(r) THEN Pass(r) /\ UNCHANGED record
     ELSE LET k == req[r].in.key IN
          \/ record[k] = NoRecord /\ Acquire(r)
          \/ /\ record[k] # NoRecord
             /\ record' = [record EXCEPT ![k].ttl = ProcessingTTL]
             /\ Refuse(r, "in_progress")
  /\ UNCHANGED grants

\* The middleware up to the handler: Begin and the switch on its decision.
Begin(r) ==
  LET k == req[r].in.key
      rec == record[k]
  IN
  /\ req[r].stage = "begin"
  /\ IF ~Remembered(r) THEN Pass(r) /\ UNCHANGED record
     ELSE IF req[r].in.body = "too_large" THEN Refuse(r, "invalid") /\ UNCHANGED record
     ELSE \/ rec = NoRecord /\ Acquire(r)
          \/ /\ rec # NoRecord
             /\ IF rec.fp # Fingerprint(r) THEN Refuse(r, "conflict")
                ELSE IF rec.state = "processing" THEN Refuse(r, "in_progress")
                ELSE Replay(r, rec)
             /\ UNCHANGED record
          \/ \* no answer from Redis; the key may be taken all the same
             /\ Refuse(r, "unavailable")
             /\ \/ UNCHANGED record
                \/ rec = NoRecord /\ record' = [record EXCEPT ![k] = Processing(r)]
  /\ UNCHANGED grants

\* The script of Complete and Fail changes the record of its owner only.
Store(k, r, rec) ==
  record' = IF record[k] # NoRecord /\ record[k].owner = r /\ record[k].state = "processing"
            THEN [record EXCEPT ![k] = rec] ELSE record

\* Fault: a failure is kept as long as a result.
Persist_OneTTL(r) ==
  LET result == [state |-> IF req[r].answer # "ok" THEN "failed" ELSE "completed",
                 fp |-> Fingerprint(r), owner |-> r, outcome |-> req[r].answer,
                 origin |-> req[r].origin, ttl |-> ResultTTL]
  IN
  /\ req[r].stage = "persist"
  /\ Store(req[r].in.key, r, result) \/ UNCHANGED record
  /\ Answer(r, req[r].answer, req[r].origin)
  /\ UNCHANGED grants

\* The middleware after the handler.  A result that cannot be stored is only
\* logged: the record stays "processing" until it expires.
Persist(r) ==
  LET failed == req[r].answer # "ok"
      result == [state |-> IF failed THEN "failed" ELSE "completed",
                 fp |-> Fingerprint(r), owner |-> r, outcome |-> req[r].answer,
                 origin |-> req[r].origin, ttl |-> IF failed THEN FailureTTL ELSE ResultTTL]
  IN
  /\ req[r].stage = "persist"
  /\ Store(req[r].in.key, r, result) \/ UNCHANGED record
  /\ Answer(r, req[r].answer, req[r].origin)
  /\ UNCHANGED grants

-----------------------------------------------------------------------------
(* Handlers *)

\* A user works in its own tenant; other callers are service accounts.
TenantAllowed(r) == req[r].subject \in Users => req[r].in.tenant = "own"

\* Every method of the file service asks for a caller, for its tenant and for
\* access to the application before it does anything.  "failed" is every error
\* after that: of the request, of a dependency or of the deadline.
ServiceOutcomes(r) ==
  IF req[r].subject = Nobody \/ ~TenantAllowed(r) THEN {"denied"}
  ELSE {"ok", "failed"}

\* ShouldBindJSON: the body is a JSON object with every required field.
Binds(i) == i.body \notin {"malformed", "too_large"}

\* The handlers of uploads and scan results bind the body and call the service.
UploadHandler(r) == IF Binds(req[r].in) THEN ServiceOutcomes(r) ELSE {"invalid"}

\* The handlers of stored files do the same.
FileHandler(r) == IF Binds(req[r].in) THEN ServiceOutcomes(r) ELSE {"invalid"}

HTTPHandlerOutcomes(r) == CASE req[r].in.op \in {"version", "me"} -> {"ok"}
                            [] req[r].in.op \in {"get", "list", "download", "delete"} -> FileHandler(r)
                            [] OTHER -> UploadHandler(r)

\* The gRPC handlers hand the decoded message to the service.
GRPCHandlerOutcomes(r) == ServiceOutcomes(r)

HandlerOutcomes(r) == CASE req[r].in.transport = "http" -> HTTPHandlerOutcomes(r)
                        [] req[r].in.transport = "grpc" -> GRPCHandlerOutcomes(r)
                        [] OTHER -> {"ok"}

\* The handler runs and writes its answer; an acquired key gets the result next.
Handle(r) ==
  /\ req[r].stage = "handler"
  /\ \E o \in HandlerOutcomes(r) :
       IF req[r].acquired
       THEN req' = [req EXCEPT ![r].stage = "persist", ![r].left = PersistTimeout,
                               ![r].answer = o, ![r].origin = Identity(r)]
       ELSE Answer(r, o, Identity(r))
  /\ UNCHANGED <<record, grants>>

\* A panic unwinds past the code that stores the result.
Panic(r) ==
  /\ req[r].stage = "handler"
  /\ Refuse(r, "internal")
  /\ UNCHANGED <<record, grants>>

\* The process that serves the request dies.
Crash(r) ==
  /\ InFlight(r)
  /\ req' = [req EXCEPT ![r] = NoRequest]
  /\ UNCHANGED <<record, grants>>

-----------------------------------------------------------------------------
(* Time and the authorization service *)

\* Every call of an HTTP request ends when its context does, so a request whose
\* time is up takes its next step before time goes on.  Records expire.
Tick ==
  /\ \A r \in Requests : Deadline(r) => req[r].left > 0
  /\ \/ \E k \in Keys : record[k] # NoRecord
     \/ \E r \in Requests : Deadline(r)
  /\ req' = [r \in Requests |-> IF Deadline(r) THEN [req[r] EXCEPT !.left = @ - 1] ELSE req[r]]
  /\ record' = [k \in Keys |-> IF record[k] = NoRecord \/ record[k].ttl = 1 THEN NoRecord
                               ELSE [record[k] EXCEPT !.ttl = @ - 1]]
  /\ UNCHANGED grants

Revoke(p) ==
  /\ p \in grants
  /\ grants' = grants \ {p}
  /\ UNCHANGED <<req, record>>

Grant(p) ==
  /\ p \notin grants
  /\ grants' = grants \cup {p}
  /\ req' = [r \in Requests |->
       IF InFlight(r) THEN [req[r] EXCEPT !.entitled = @ \/ Granted(req[r].in, grants')]
                      ELSE req[r]]
  /\ UNCHANGED record

Step(r) == RateLimit(r) \/ Authenticate(r) \/ Authorize(r) \/ Begin(r) \/ Handle(r) \/ Persist(r)

Next ==
  \/ \E r \in Requests : (\E i \in Inputs : Arrive(r, i)) \/ Step(r) \/ Panic(r) \/ Crash(r)
  \/ Tick
  \/ \E p \in Revocable : Revoke(p) \/ Grant(p)

\* The calls of an HTTP request end with its context, a result is stored within
\* its own timeout, and time goes on.  A gRPC call may take for ever.
Fairness ==
  /\ WF_vars(Tick)
  /\ \A r \in Requests : WF_vars(Deadline(r) /\ Step(r))

Spec == Init /\ [][Next]_vars /\ Fairness

-----------------------------------------------------------------------------
(* Properties *)

\* Two HTTP requests with the same key are never both in their handlers: the
\* record outlives the request that took it (middleware.go, Begin and Timeout).
OneExecutionPerKey ==
  \A r, s \in Requests :
    /\ r # s
    /\ req[r].stage = "handler" /\ req[r].acquired /\ req[r].in.transport = "http"
    /\ req[s].stage = "handler" /\ req[s].acquired /\ req[s].in.transport = "http"
    => req[r].in.key # req[s].in.key

\* A result, fresh or replayed, was computed for the same caller, operation,
\* tenant and input as the request it answers.  A worker whose record expired
\* does not put its result under the key of another request.
ResultsBelongToRequest ==
  \A r \in Requests :
    req[r].stage = "answered" => req[r].origin = Identity(r)

\* A result of a file operation reaches a client only when its credential is
\* good, a user asked for its own tenant or got no success, and the permission
\* was granted at some time while this very request was in flight.  No replay
\* and no failing dependency gets round that.
ResultsOnlyForEntitled ==
  \A r \in Requests :
    req[r].stage = "answered" /\ Protected(req[r].in) =>
      /\ AuthzEnabled => req[r].entitled
      /\ req[r].answer = "ok" =>
           /\ Sender(req[r].in) # Nobody
           /\ Sender(req[r].in) \in Users => req[r].in.tenant = "own"

\* No request that died, hung, panicked or failed keeps its key for ever: every
\* record is gone in the end and the key can be used again.
KeysAreFreed == \A k \in Keys : record[k] # NoRecord ~> record[k] = NoRecord

=============================================================================
