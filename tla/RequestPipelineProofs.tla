------------------------ MODULE RequestPipelineProofs ------------------------
(* Proofs about RequestPipeline, for every set of requests, keys, callers and *)
(* permissions, every configuration and every timeout below its TTL.          *)
EXTENDS RequestPipeline, TLAPS

-----------------------------------------------------------------------------
(* The stages *)

\* Where a request of each transport may stand.
StagesOf(t) ==
  CASE t = "http" -> {"limit", "authn", "authz", "user", "begin", "handler", "persist", "answered"}
    [] t = "grpc" -> {"authn", "authz", "begin", "handler", "persist", "answered"}
    [] OTHER -> {"authn", "handler", "answered"}

\* The stages that a request reaches past its permission check.
PastAuthz == {"user", "begin", "handler", "persist", "answered"}

\* The middlewares and interceptors follow one another as they are registered.
LEMMA StageOrder ==
  /\ After("http", "limit") = "authn" /\ After("http", "authn") = "authz"
  /\ After("http", "authz") = "user" /\ After("http", "user") = "begin"
  /\ After("http", "begin") = "handler"
  /\ After("grpc", "authn") = "authz" /\ After("grpc", "authz") = "begin"
  /\ After("grpc", "begin") = "handler"
  /\ After("stream", "authn") = "handler"
<1>1. /\ After("http", "limit") = "authn" /\ After("http", "authn") = "authz"
      /\ After("http", "authz") = "user" /\ After("http", "user") = "begin"
      /\ After("http", "begin") = "handler"
  BY DEF After, Stages, HTTPStages
<1>2. /\ After("grpc", "authn") = "authz" /\ After("grpc", "authz") = "begin"
      /\ After("grpc", "begin") = "handler"
  BY DEF After, Stages, GRPCStages
<1>3. After("stream", "authn") = "handler"
  BY DEF After, Stages, StreamStages
<1> QED
  BY <1>1, <1>2, <1>3

-----------------------------------------------------------------------------
(* The inductive invariant *)

Subjects == Users \cup {"psk", Nobody}

\* What results are computed for, and the hash of it.
Identities == [subject : Subjects, transport : {i.transport : i \in Inputs},
               op : {i.op : i \in Inputs}, tenant : {i.tenant : i \in Inputs},
               body : {i.body : i \in Inputs}]
Hash(o) == <<o.subject, o.transport, o.op, o.tenant, o.body>>
Origins == Identities \cup {<<>>}

LiveRequests ==
  [stage : {"limit", "authn", "authz", "user", "begin", "handler", "persist", "answered"},
   in : Inputs, subject : Subjects, acquired : BOOLEAN, left : Nat, answer : Outcomes,
   origin : Origins, entitled : BOOLEAN]
Slots == LiveRequests \cup {Refused(e) : e \in Errors} \cup {NoRequest}

Records == [state : {"processing", "completed", "failed"}, fp : {Hash(o) : o \in Identities},
            owner : Requests, outcome : Outcomes, origin : Origins, ttl : Nat]

Shape ==
  /\ req \in [Requests -> Slots]
  /\ record \in [Keys -> Records \cup {NoRecord}]
  /\ grants \subseteq Permissions

IdentityOf(q) == [subject |-> q.subject, transport |-> q.in.transport, op |-> q.in.op,
                  tenant |-> q.in.tenant, body |-> q.in.body]

\* The file service answers "ok" to callers only, and to users in their tenant.
Honest(outcome, o) ==
  outcome = "ok" /\ Protected(o) =>
    /\ o.subject # Nobody
    /\ o.subject \in Users => o.tenant = "own"

\* A request that was not refused, under the grants g.
LiveOK(q, g) ==
  /\ q \in LiveRequests
  /\ q.stage \in StagesOf(q.in.transport)
  /\ q.left <= IF q.stage = "persist" THEN PersistTimeout ELSE RequestTimeout
  /\ q.in.key # BadKey
  /\ q.subject \in {Nobody, Sender(q.in)}
  /\ q.acquired => /\ q.stage \in {"handler", "persist"}
                   /\ q.in.key \in Keys /\ q.in.transport # "stream"
  /\ q.stage = "persist" => q.acquired
  /\ q.stage # "answered" /\ Granted(q.in, g) => q.entitled
  /\ AuthzEnabled /\ Protected(q.in) /\ q.stage \in PastAuthz => q.entitled
  /\ q.stage \in {"persist", "answered"} =>
       q.origin = IdentityOf(q) /\ Honest(q.answer, q.origin)

SlotsInv == \A r \in Requests : req[r] \in LiveRequests => LiveOK(req[r], grants)

\* A stored result was computed for what its hash stands for.
RecordOK(rec) ==
  /\ rec.ttl > 0
  /\ rec.state = "failed" => rec.outcome # "ok" /\ rec.ttl <= FailureTTL
  /\ rec.state # "processing" =>
       rec.origin \in Identities /\ rec.fp = Hash(rec.origin) /\ Honest(rec.outcome, rec.origin)

RecordsInv == \A k \in Keys : record[k] # NoRecord => RecordOK(record[k])

Executing(r) == /\ req[r].stage = "handler" /\ req[r].acquired
                /\ req[r].in.transport = "http"

\* The record of an HTTP request that executes lives longer than the request.
Held == \A r \in Requests : Executing(r) =>
          LET rec == record[req[r].in.key] IN
          /\ rec \in Records
          /\ rec.owner = r /\ rec.state = "processing" /\ rec.ttl > req[r].left

PipelineInv == Shape /\ SlotsInv /\ RecordsInv /\ Held

-----------------------------------------------------------------------------
(* Requests that move from stage to stage *)

\* Passing a stage leads to the next one of the transport; the permission check is
\* not passed by.
LEMMA StageMoves ==
  ASSUME NEW i \in Inputs,
         NEW st \in StagesOf(i.transport) \ {"handler", "persist", "answered"}
  PROVE  /\ After(i.transport, st) \in StagesOf(i.transport)
         /\ After(i.transport, st) \in {"authn", "authz", "user", "begin", "handler"}
         /\ st = "begin" => After(i.transport, st) = "handler"
         /\ st \in {"limit", "authn"} /\ i.transport # "stream"
              => After(i.transport, st) \notin PastAuthz
<1>1. CASE i.transport = "http"
  BY <1>1, StageOrder DEF StagesOf, PastAuthz
<1>2. CASE i.transport = "grpc"
  BY <1>2, StageOrder DEF StagesOf, PastAuthz
<1>3. CASE i.transport = "stream"
  BY <1>3, StageOrder DEF StagesOf
<1> QED
  BY <1>1, <1>2, <1>3, PipelineAssumption

\* Streams require no permission.
LEMMA StreamsAreOpen ==
  ASSUME NEW i, Protected(i) PROVE i.transport # "stream"
BY DEF Protected, Requirement

\* A request that is neither new, nor refused, nor answered.
LEMMA InFlightIsLive ==
  ASSUME PipelineInv, NEW r \in Requests, req[r].stage \notin {"idle", "refused"}
  PROVE  req[r] \in LiveRequests /\ LiveOK(req[r], grants) /\ req[r].in \in Inputs
BY DEF PipelineInv, Shape, SlotsInv, Slots, NoRequest, Refused, LiveRequests

\* NoRequest and refusals are slots, and not live.
LEMMA IdleSlots ==
  /\ NoRequest \in Slots /\ NoRequest \notin LiveRequests /\ NoRequest.stage = "idle"
  /\ \A e \in Errors : /\ Refused(e) \in Slots /\ Refused(e) \notin LiveRequests
                       /\ Refused(e).stage = "refused"
BY DEF Slots, LiveRequests, NoRequest, Refused

\* A request that is in order after its step keeps the invariant if it does not
\* start to execute and leaves records and grants alone.
LEMMA SlotKeeps ==
  ASSUME PipelineInv, NEW r \in Requests, NEW q \in Slots, req' = [req EXCEPT ![r] = q],
         UNCHANGED <<record, grants>>, q \in LiveRequests => LiveOK(q, grants),
         q.stage = "handler" => ~q.acquired
  PROVE  PipelineInv'
<1>1. req'[r] = q /\ \A s \in Requests \ {r} : req'[s] = req[s]
  BY DEF PipelineInv, Shape
<1>2. Shape'
  BY DEF PipelineInv, Shape
<1>3. SlotsInv'
  BY <1>1 DEF PipelineInv, SlotsInv
<1>4. RecordsInv'
  BY DEF PipelineInv, RecordsInv
<1>5. Held'
  BY <1>1 DEF PipelineInv, Held, Executing
<1> QED
  BY <1>2, <1>3, <1>4, <1>5 DEF PipelineInv

\* Refuse, and the death of the process, leave an empty slot.
LEMMA RefuseKeeps ==
  ASSUME PipelineInv, NEW r \in Requests, UNCHANGED <<record, grants>>,
         (\E e \in Errors : Refuse(r, e)) \/ req' = [req EXCEPT ![r] = NoRequest]
  PROVE  PipelineInv'
<1>1. PICK q \in {NoRequest} \cup {Refused(e) : e \in Errors} : req' = [req EXCEPT ![r] = q]
  BY DEF Refuse
<1>2. q \in Slots /\ q \notin LiveRequests /\ q.stage # "handler"
  BY IdleSlots
<1> QED
  BY <1>1, <1>2, SlotKeeps

\* A request that passes a check, with the caller the check found, stays in order.
LEMMA MoveKeeps ==
  ASSUME NEW q, NEW g, LiveOK(q, g), NEW s, s \in {Nobody, Sender(q.in)},
         NEW st \in {"authn", "authz", "user", "begin", "handler"},
         st \in StagesOf(q.in.transport),
         q.stage \notin {"handler", "persist", "answered"},
         AuthzEnabled /\ Protected(q.in) /\ st \in PastAuthz => q.entitled,
         NEW p, p = [q EXCEPT !.stage = st, !.subject = s]
  PROVE  LiveOK(p, g) /\ p \in Slots /\ ~p.acquired
<1>1. s \in Subjects /\ q \in LiveRequests
  BY DEF Sender, Subjects, LiveOK
<1>2. /\ p \in LiveRequests /\ p.stage = st /\ p.subject = s /\ p.in = q.in
      /\ p.left = q.left /\ p.acquired = q.acquired /\ p.entitled = q.entitled
  BY <1>1 DEF LiveRequests
<1>3. ~q.acquired
  BY DEF LiveOK
<1>4. p.left <= IF p.stage = "persist" THEN PersistTimeout ELSE RequestTimeout
  BY <1>2 DEF LiveOK
<1>5. LiveOK(p, g)
  BY <1>2, <1>3, <1>4 DEF LiveOK
<1> QED
  BY <1>2, <1>3, <1>5 DEF Slots

\* The same, when the caller is known already.
LEMMA PassKeeps ==
  ASSUME PipelineInv, NEW r \in Requests, Pass(r), UNCHANGED <<record, grants>>,
         req[r].stage \in {"limit", "authn", "authz", "user", "begin"},
         req[r].stage = "authz" /\ AuthzEnabled /\ Protected(req[r].in) => req[r].entitled
  PROVE  PipelineInv'
<1>0. PICK st, q : /\ st = After(req[r].in.transport, req[r].stage)
                   /\ q = [req[r] EXCEPT !.stage = st, !.subject = req[r].subject]
  OBVIOUS
<1>1. req[r] \in LiveRequests /\ LiveOK(req[r], grants) /\ req[r].in \in Inputs
  BY InFlightIsLive
<1>2. /\ st \in StagesOf(req[r].in.transport)
      /\ st \in {"authn", "authz", "user", "begin", "handler"}
      /\ req[r].stage \in {"limit", "authn"} /\ req[r].in.transport # "stream"
           => st \notin PastAuthz
  BY <1>0, <1>1, StageMoves DEF LiveOK
<1>3. [req[r] EXCEPT !.stage = st] = q
  BY <1>0, <1>1 DEF LiveRequests
<1>4. req' = [req EXCEPT ![r] = q]
  BY <1>0, <1>3 DEF Pass
<1>5. AuthzEnabled /\ Protected(req[r].in) /\ st \in PastAuthz => req[r].entitled
  BY <1>1, <1>2, StreamsAreOpen DEF LiveOK, PastAuthz
<1>6. req[r].subject \in {Nobody, Sender(req[r].in)}
  BY <1>1 DEF LiveOK
<1>7. LiveOK(q, grants) /\ q \in Slots /\ ~q.acquired
  <2>1. PICK x, s : x = req[r] /\ s = x.subject
    OBVIOUS
  <2>2. /\ LiveOK(x, grants) /\ s \in {Nobody, Sender(x.in)}
        /\ st \in StagesOf(x.in.transport)
        /\ x.stage \notin {"handler", "persist", "answered"}
    BY <1>1, <1>2, <1>6, <2>1
  <2>3. AuthzEnabled /\ Protected(x.in) /\ st \in PastAuthz => x.entitled
    BY <1>5, <2>1
  <2>4. q = [x EXCEPT !.stage = st, !.subject = s]
    BY <1>0, <2>1
  <2> QED
    BY <1>2, <2>2, <2>3, <2>4, MoveKeeps
<1> QED
  BY <1>4, <1>7, SlotKeeps

\* A request that arrives is refused at once or starts with its transport's checks.
LEMMA ArriveKeeps ==
  ASSUME PipelineInv, NEW r \in Requests, NEW i \in Inputs, Arrive(r, i)
  PROVE  PipelineInv'
<1>1. CASE ~EdgeAccepts(i)
  BY <1>1, RefuseKeeps DEF Arrive, Refuse, Errors
<1>2. CASE EdgeAccepts(i)
  <2>1. PICK q : q = NewRequest(i)
    OBVIOUS
  <2>2. /\ q.stage = Stages(i.transport)[1] /\ q.in = i /\ q.subject = Nobody
        /\ ~q.acquired /\ q.left = (IF i.transport = "http" THEN RequestTimeout ELSE 0)
        /\ q.entitled <=> Granted(i, grants)
    BY <2>1 DEF NewRequest
  <2>3. q.stage \in {"limit", "authn"} /\ q.stage \in StagesOf(i.transport)
    BY <2>2, PipelineAssumption
    DEF Stages, HTTPStages, GRPCStages, StreamStages, StagesOf
  <2>4. q \in LiveRequests
    <3>1. Granted(i, grants) \in BOOLEAN
      BY DEF Granted
    <3>2. q.left \in Nat /\ q.answer = "ok" /\ q.origin = <<>>
      BY <2>1, <2>2, PipelineAssumption DEF NewRequest
    <3> QED
      BY <2>1, <2>2, <2>3, <3>1, <3>2
      DEF NewRequest, LiveRequests, Subjects, Outcomes, Origins
  <2>5. q.left <= IF q.stage = "persist" THEN PersistTimeout ELSE RequestTimeout
    BY <2>2, <2>3, PipelineAssumption
  <2>6. LiveOK(q, grants)
    BY <1>2, <2>2, <2>3, <2>4, <2>5 DEF LiveOK, EdgeAccepts, KeyAccepted, PastAuthz
  <2> QED
    BY <1>2, <2>1, <2>2, <2>3, <2>4, <2>6, SlotKeeps DEF Arrive, Slots
<1> QED
  BY <1>1, <1>2

\* RateLimit passes a request on or refuses it.
LEMMA RateLimitKeeps ==
  ASSUME PipelineInv, NEW r \in Requests, RateLimit(r) PROVE PipelineInv'
<1>1. CASE Pass(r)
  BY <1>1, PassKeeps DEF RateLimit
<1>2. CASE Refuse(r, "limited") \/ Refuse(r, "unavailable")
  BY <1>2, RefuseKeeps DEF RateLimit, Errors
<1> QED
  BY <1>1, <1>2 DEF RateLimit

\* Authentication finds the sender of a request, or nobody.
LEMMA AuthenticateKeeps ==
  ASSUME PipelineInv, NEW r \in Requests, Authenticate(r) PROVE PipelineInv'
<1>1. CASE Refuse(r, "denied")
  BY <1>1, RefuseKeeps DEF Authenticate, Errors
<1>2. ASSUME NEW s, s \in {Nobody, Sender(req[r].in)},
             req' = [req EXCEPT ![r].subject = s,
                                ![r].stage = After(req[r].in.transport, @)]
      PROVE  PipelineInv'
  <2>1. PICK x, st, q : /\ x = req[r] /\ st = After(x.in.transport, x.stage)
                        /\ q = [x EXCEPT !.stage = st, !.subject = s]
    OBVIOUS
  <2>2. /\ x \in LiveRequests /\ LiveOK(x, grants) /\ x.in \in Inputs
        /\ x.stage = "authn" /\ UNCHANGED <<record, grants>>
    BY <2>1, InFlightIsLive DEF Authenticate
  <2>3. /\ st \in StagesOf(x.in.transport)
        /\ st \in {"authn", "authz", "user", "begin", "handler"}
        /\ x.in.transport # "stream" => st \notin PastAuthz
    BY <2>1, <2>2, StageMoves DEF LiveOK
  <2>4. AuthzEnabled /\ Protected(x.in) /\ st \in PastAuthz => x.entitled
    BY <2>3, StreamsAreOpen
  <2>5. LiveOK(q, grants) /\ q \in Slots /\ ~q.acquired
    <3>1. x.stage \notin {"handler", "persist", "answered"}
      BY <2>2
    <3>2. s \in {Nobody, Sender(x.in)} /\ q = [x EXCEPT !.stage = st, !.subject = s]
      BY <1>2, <2>1
    <3> QED
      BY <2>2, <2>3, <2>4, <3>1, <3>2, MoveKeeps
  <2>6. req' = [req EXCEPT ![r] = q]
    <3>1. req' = [req EXCEPT ![r] = [x EXCEPT !.subject = s, !.stage = st]]
      BY <1>2, <2>1
    <3>2. [x EXCEPT !.subject = s, !.stage = st] = q
      BY <2>1, <2>2 DEF LiveRequests
    <3> QED
      BY <3>1, <3>2
  <2> QED
    BY <2>2, <2>5, <2>6, SlotKeeps
<1>3. VerifyPSK(req[r].in) => Sender(req[r].in) = "psk"
  BY DEF VerifyPSK, Sender
<1>4. Verify(req[r].in) => Sender(req[r].in) = req[r].in.cred
  BY DEF Verify, Sender
<1> QED
  BY <1>1, <1>2, <1>3, <1>4 DEF Authenticate

\* Authorization lets pass what was granted to the sender while it was in flight.
LEMMA AuthorizeKeeps ==
  ASSUME PipelineInv, NEW r \in Requests, Authorize(r) PROVE PipelineInv'
<1>1. CASE Refuse(r, "denied") \/ Refuse(r, "unavailable")
  BY <1>1, RefuseKeeps DEF Authorize, Errors
<1>2. CASE Pass(r)
  <2>1. /\ req[r].stage = "authz" /\ LiveOK(req[r], grants) /\ UNCHANGED <<record, grants>>
        /\ grants \subseteq Permissions
    BY InFlightIsLive DEF Authorize, PipelineInv, Shape
  <2>2. ASSUME <<req[r].subject, Requirement(req[r].in)[req[r].in.op]>> \in grants
        PROVE  req[r].entitled
    <3>1. req[r].subject # Nobody
      BY <2>1, <2>2, PipelineAssumption
    <3>2. req[r].subject = Sender(req[r].in)
      BY <2>1, <3>1 DEF LiveOK
    <3>3. Granted(req[r].in, grants)
      BY <2>2, <3>2 DEF Granted
    <3> QED
      BY <2>1, <3>3 DEF LiveOK
  <2>3. CASE ~AuthzEnabled \/ ~Protected(req[r].in)
    BY <1>2, <2>1, <2>3, PassKeeps
  <2>4. CASE <<req[r].subject, Requirement(req[r].in)[req[r].in.op]>> \in grants
    BY <1>2, <2>1, <2>2, <2>4, PassKeeps
  <2>5. CASE Refuse(r, "denied") \/ Refuse(r, "unavailable")
    BY <1>1, <2>5
  <2> QED
    BY <2>3, <2>4, <2>5 DEF Authorize
<1> QED
  BY <1>1, <1>2 DEF Authorize

-----------------------------------------------------------------------------
(* Idempotency records *)

\* A request that writes a record keeps the invariant if nobody else executes
\* under that record, and if the record outlives its own execution.
LEMMA WriteKeeps ==
  ASSUME PipelineInv, NEW r \in Requests, NEW q \in Slots, req' = [req EXCEPT ![r] = q],
         q \in LiveRequests => LiveOK(q, grants), UNCHANGED grants,
         NEW k \in Keys, NEW rec \in Records, RecordOK(rec),
         record' = [record EXCEPT ![k] = rec],
         record[k] = NoRecord \/ record[k].owner = r,
         q.stage = "handler" /\ q.acquired =>
           /\ q.in.key = k /\ rec.owner = r /\ rec.state = "processing"
           /\ q.in.transport = "http" => rec.ttl > q.left
  PROVE  PipelineInv'
<1>1. req'[r] = q /\ \A s \in Requests \ {r} : req'[s] = req[s]
  BY DEF PipelineInv, Shape
<1>2. record'[k] = rec /\ \A j \in Keys \ {k} : record'[j] = record[j]
  BY DEF PipelineInv, Shape
<1>3. Shape'
  BY DEF PipelineInv, Shape
<1>4. SlotsInv'
  BY <1>1 DEF PipelineInv, SlotsInv
<1>5. RecordsInv'
  BY <1>2 DEF PipelineInv, RecordsInv
<1>6. ASSUME NEW s \in Requests \ {r}, Executing(s)
      PROVE  req[s].in.key \in Keys \ {k}
  <2>1. req[s].in.key \in Keys
    BY <1>6, InFlightIsLive DEF Executing, LiveOK
  <2>2. record[req[s].in.key] \in Records /\ record[req[s].in.key].owner = s
    BY <1>6 DEF PipelineInv, Held
  <2>3. NoRecord \notin Records
    BY DEF NoRecord, Records
  <2> QED
    BY <2>1, <2>2, <2>3
<1>7. Held'
  <2> SUFFICES ASSUME NEW s \in Requests, Executing(s)'
               PROVE  /\ record'[req'[s].in.key] \in Records
                      /\ record'[req'[s].in.key].owner = s
                      /\ record'[req'[s].in.key].state = "processing"
                      /\ record'[req'[s].in.key].ttl > req'[s].left
    BY DEF Held
  <2>1. CASE s = r
    BY <1>1, <1>2, <2>1 DEF Executing
  <2>2. CASE s # r
    <3>1. Executing(s) /\ req'[s] = req[s]
      BY <1>1, <2>2 DEF Executing
    <3>2. record'[req[s].in.key] = record[req[s].in.key]
      BY <1>2, <1>6, <2>2, <3>1
    <3> QED
      BY <3>1, <3>2 DEF PipelineInv, Held
  <2> QED
    BY <2>1, <2>2
<1> QED
  BY <1>3, <1>4, <1>5, <1>7 DEF PipelineInv

\* Fingerprint is the hash of the identity of a live request.
LEMMA Fingerprints ==
  ASSUME NEW r, req[r] \in LiveRequests
  PROVE  /\ Identity(r) = IdentityOf(req[r]) /\ Identity(r) \in Identities
         /\ Fingerprint(r) = Hash(Identity(r))
BY DEF Identity, IdentityOf, Identities, Fingerprint, Hash, LiveRequests

\* The hash tells identities apart.
LEMMA HashIsInjective ==
  ASSUME NEW a \in Identities, NEW b \in Identities, Hash(a) = Hash(b)
  PROVE  a = b
<1>1. /\ a.subject = b.subject /\ a.transport = b.transport /\ a.op = b.op
      /\ a.tenant = b.tenant /\ a.body = b.body
  BY DEF Hash
<1> QED
  BY <1>1 DEF Identities

\* A result that was computed for the request answers it.
LEMMA AnswerOK ==
  ASSUME PipelineInv, NEW r \in Requests, NEW o \in Outcomes, NEW origin,
         req[r].stage \in {"begin", "handler", "persist"}, Answer(r, o, origin),
         origin = Identity(r), Honest(o, origin)
  PROVE  \E q \in Slots : /\ req' = [req EXCEPT ![r] = q]
                          /\ LiveOK(q, grants) /\ q.stage = "answered"
<1>1. PICK x : x = req[r]
  OBVIOUS
<1>2. /\ x \in LiveRequests /\ LiveOK(x, grants) /\ origin = IdentityOf(x)
      /\ origin \in Origins
  BY <1>1, InFlightIsLive, Fingerprints DEF Origins
<1>3. PICK q : q = [x EXCEPT !.stage = "answered", !.answer = o, !.origin = origin,
                             !.left = 0, !.acquired = FALSE]
  OBVIOUS
<1>4. /\ q \in LiveRequests /\ q.stage = "answered" /\ q.answer = o /\ q.origin = origin
      /\ q.left = 0 /\ ~q.acquired /\ q.in = x.in /\ q.subject = x.subject
      /\ q.entitled = x.entitled
  BY <1>2, <1>3 DEF LiveRequests
<1>5. IdentityOf(q) = origin
  BY <1>2, <1>4 DEF IdentityOf
<1>6. q.left <= IF q.stage = "persist" THEN PersistTimeout ELSE RequestTimeout
  BY <1>4, PipelineAssumption
<1>7. AuthzEnabled /\ Protected(q.in) => q.entitled
  BY <1>1, <1>2, <1>4 DEF LiveOK, PastAuthz
<1>8. q.stage \in StagesOf(q.in.transport)
  BY <1>4 DEF StagesOf
<1>9. LiveOK(q, grants)
  BY <1>2, <1>4, <1>5, <1>6, <1>7, <1>8 DEF LiveOK
<1>10. req' = [req EXCEPT ![r] = q]
  BY <1>1, <1>3 DEF Answer
<1> QED
  BY <1>4, <1>9, <1>10 DEF Slots

\* The record a request takes its key with.
LEMMA ProcessingOK ==
  ASSUME NEW r \in Requests, req[r] \in LiveRequests
  PROVE  /\ Processing(r) \in Records /\ RecordOK(Processing(r))
         /\ Processing(r).owner = r /\ Processing(r).state = "processing"
         /\ Processing(r).ttl = ProcessingTTL
<1>1. ProcessingTTL \in Nat /\ ProcessingTTL > 0
  BY PipelineAssumption
<1>2. Fingerprint(r) \in {Hash(o) : o \in Identities}
  BY Fingerprints
<1> QED
  BY <1>1, <1>2 DEF Processing, Records, RecordOK, Outcomes, Origins

\* A key that is free is taken for the processing TTL, which is longer than what is
\* left of an HTTP request.
LEMMA AcquireKeeps ==
  ASSUME PipelineInv, NEW r \in Requests, req[r].stage = "begin", req[r].in.key \in Keys,
         record[req[r].in.key] = NoRecord, Acquire(r), UNCHANGED grants
  PROVE  PipelineInv'
<1>1. PICK x, k : x = req[r] /\ k = x.in.key
  OBVIOUS
<1>2. /\ x \in LiveRequests /\ LiveOK(x, grants) /\ x.in \in Inputs
      /\ x.stage = "begin" /\ k \in Keys /\ record[k] = NoRecord
  BY <1>1, InFlightIsLive
<1>3. /\ After(x.in.transport, x.stage) = "handler"
      /\ "handler" \in StagesOf(x.in.transport) /\ x.in.transport # "stream"
  BY <1>2, StageMoves DEF LiveOK, StagesOf
<1>4. PICK q : q = [x EXCEPT !.acquired = TRUE, !.stage = "handler"]
  OBVIOUS
<1>5. req' = [req EXCEPT ![r] = q]
  <2>1. req' = [req EXCEPT ![r] = [x EXCEPT !.acquired = TRUE,
                                            !.stage = After(x.in.transport, x.stage)]]
    BY <1>1 DEF Acquire
  <2> QED
    BY <1>3, <1>4, <2>1
<1>6. /\ q \in LiveRequests /\ q.stage = "handler" /\ q.acquired /\ q.in = x.in
      /\ q.subject = x.subject /\ q.left = x.left /\ q.entitled = x.entitled
  BY <1>2, <1>4 DEF LiveRequests
<1>7. q.left <= RequestTimeout /\ q.left \in Nat
  BY <1>2, <1>6 DEF LiveOK, LiveRequests
<1>8. /\ Granted(q.in, grants) => q.entitled
      /\ AuthzEnabled /\ Protected(q.in) => q.entitled
  BY <1>2, <1>6 DEF LiveOK, PastAuthz
<1>9. LiveOK(q, grants)
  BY <1>1, <1>2, <1>3, <1>6, <1>7, <1>8 DEF LiveOK
<1>10. record' = [record EXCEPT ![k] = Processing(r)]
  BY <1>1 DEF Acquire
<1>11. PICK rec \in Records : /\ rec = Processing(r) /\ RecordOK(rec) /\ rec.owner = r
                              /\ rec.state = "processing" /\ rec.ttl = ProcessingTTL
  BY <1>1, <1>2, ProcessingOK
<1>12. rec.ttl > q.left
  BY <1>7, <1>11, PipelineAssumption
<1> QED
  BY <1>1, <1>2, <1>5, <1>6, <1>9, <1>10, <1>11, <1>12, WriteKeeps DEF Slots

\* Begin and the switch on its decision.
LEMMA BeginKeeps ==
  ASSUME PipelineInv, NEW r \in Requests, Begin(r) PROVE PipelineInv'
<1>1. /\ req[r].stage = "begin" /\ UNCHANGED grants
      /\ req[r] \in LiveRequests /\ LiveOK(req[r], grants) /\ req[r].in \in Inputs
  BY InFlightIsLive DEF Begin
<1>2. CASE Pass(r) /\ UNCHANGED record
  BY <1>1, <1>2, PassKeeps
<1>3. ASSUME NEW e \in Errors, Refuse(r, e), UNCHANGED record PROVE PipelineInv'
  BY <1>1, <1>3, RefuseKeeps
<1>4. ASSUME Remembered(r) PROVE req[r].in.key \in Keys
  BY <1>1, <1>4, PipelineAssumption DEF Remembered, LiveOK
<1>5. ASSUME Remembered(r), record[req[r].in.key] = NoRecord, Acquire(r) PROVE PipelineInv'
  BY <1>1, <1>4, <1>5, AcquireKeeps
<1>6. ASSUME Remembered(r), record[req[r].in.key] # NoRecord,
             record[req[r].in.key].fp = Fingerprint(r),
             record[req[r].in.key].state # "processing",
             Replay(r, record[req[r].in.key]), UNCHANGED record
      PROVE  PipelineInv'
  <2>1. PICK rec \in Records : rec = record[req[r].in.key]
    BY <1>4, <1>6 DEF PipelineInv, Shape
  <2>2. /\ rec.origin \in Identities /\ rec.fp = Hash(rec.origin)
        /\ Honest(rec.outcome, rec.origin) /\ rec.outcome \in Outcomes
    BY <1>4, <1>6, <2>1 DEF PipelineInv, RecordsInv, RecordOK, Records
  <2>3. rec.origin = Identity(r)
    BY <1>1, <1>6, <2>1, <2>2, Fingerprints, HashIsInjective
  <2>4. Answer(r, rec.outcome, rec.origin)
    BY <1>6, <2>1 DEF Replay
  <2>5. PICK q \in Slots : /\ req' = [req EXCEPT ![r] = q]
                           /\ LiveOK(q, grants) /\ q.stage = "answered"
    BY <1>1, <2>2, <2>3, <2>4, AnswerOK
  <2> QED
    BY <1>1, <1>6, <2>5, SlotKeeps
<1>7. ASSUME Remembered(r), record[req[r].in.key] = NoRecord, Refuse(r, "unavailable"),
             record' = [record EXCEPT ![req[r].in.key] = Processing(r)]
      PROVE  PipelineInv'
  <2>1. PICK q \in Slots : /\ req' = [req EXCEPT ![r] = q]
                           /\ q \notin LiveRequests /\ q.stage = "refused"
    BY <1>7, IdleSlots DEF Refuse, Errors
  <2>2. PICK k \in Keys, rec \in Records :
          k = req[r].in.key /\ rec = Processing(r) /\ RecordOK(rec)
    BY <1>1, <1>4, <1>7, ProcessingOK
  <2> QED
    BY <1>1, <1>7, <2>1, <2>2, WriteKeeps
<1>8. {"invalid", "conflict", "in_progress", "unavailable"} \subseteq Errors
  BY DEF Errors
<1> QED
  BY <1>2, <1>3, <1>5, <1>6, <1>7, <1>8 DEF Begin

\* What the file service answers is honest.
LEMMA OutcomesAreHonest ==
  ASSUME NEW r, req[r] \in LiveRequests, NEW o \in HandlerOutcomes(r)
  PROVE  o \in Outcomes /\ Honest(o, Identity(r))
<1>1. /\ Identity(r).subject = req[r].subject /\ Identity(r).tenant = req[r].in.tenant
      /\ Identity(r).transport = req[r].in.transport /\ Identity(r).op = req[r].in.op
  BY DEF Identity
<1>2. ASSUME o \in ServiceOutcomes(r) PROVE o \in Outcomes /\ Honest(o, Identity(r))
  BY <1>1, <1>2 DEF ServiceOutcomes, TenantAllowed, Outcomes, Honest
<1>3. ASSUME o = "invalid" PROVE o \in Outcomes /\ Honest(o, Identity(r))
  BY <1>3 DEF Outcomes, Honest
<1>4. ASSUME ~Protected(Identity(r)), o = "ok" PROVE o \in Outcomes /\ Honest(o, Identity(r))
  BY <1>4 DEF Outcomes, Honest
<1>5. CASE req[r].in.transport = "http"
  <2>1. CASE req[r].in.op \in {"version", "me"}
    <3>1. ~Protected(Identity(r))
      BY <1>1, <1>5, <2>1 DEF Protected, Requirement, HTTPRequirement
    <3> QED
      BY <1>4, <1>5, <2>1, <3>1 DEF HandlerOutcomes, HTTPHandlerOutcomes
  <2>2. CASE req[r].in.op \notin {"version", "me"}
    BY <1>2, <1>3, <1>5, <2>2
    DEF HandlerOutcomes, HTTPHandlerOutcomes, FileHandler, UploadHandler
  <2> QED
    BY <2>1, <2>2
<1>6. CASE req[r].in.transport = "grpc"
  BY <1>2, <1>6 DEF HandlerOutcomes, GRPCHandlerOutcomes
<1>7. CASE req[r].in.transport \notin {"http", "grpc"}
  <2>1. ~Protected(Identity(r))
    BY <1>1, <1>7 DEF Protected, Requirement
  <2> QED
    BY <1>4, <1>7, <2>1 DEF HandlerOutcomes
<1> QED
  BY <1>5, <1>6, <1>7

\* The handler answers, or leaves its answer to be stored.
LEMMA HandleKeeps ==
  ASSUME PipelineInv, NEW r \in Requests, Handle(r) PROVE PipelineInv'
<1>1. /\ req[r].stage = "handler" /\ UNCHANGED <<record, grants>>
      /\ req[r] \in LiveRequests /\ LiveOK(req[r], grants) /\ req[r].in \in Inputs
  BY InFlightIsLive DEF Handle
<1>2. PICK o \in HandlerOutcomes(r) :
        IF req[r].acquired
        THEN req' = [req EXCEPT ![r].stage = "persist", ![r].left = PersistTimeout,
                                ![r].answer = o, ![r].origin = Identity(r)]
        ELSE Answer(r, o, Identity(r))
  BY DEF Handle
<1>3. o \in Outcomes /\ Honest(o, Identity(r))
  BY <1>1, OutcomesAreHonest
<1>4. CASE ~req[r].acquired
  <2>1. PICK q \in Slots : /\ req' = [req EXCEPT ![r] = q]
                           /\ LiveOK(q, grants) /\ q.stage = "answered"
    BY <1>1, <1>2, <1>3, <1>4, AnswerOK
  <2> QED
    BY <1>1, <2>1, SlotKeeps
<1>5. CASE req[r].acquired
  <2>1. PICK x, origin : x = req[r] /\ origin = Identity(r)
    OBVIOUS
  <2>2. /\ x \in LiveRequests /\ LiveOK(x, grants) /\ x.stage = "handler" /\ x.acquired
        /\ origin = IdentityOf(x) /\ origin \in Origins
    BY <1>1, <1>5, <2>1, Fingerprints DEF Origins
  <2>3. PICK q : q = [x EXCEPT !.stage = "persist", !.left = PersistTimeout,
                               !.answer = o, !.origin = origin]
    OBVIOUS
  <2>4. req' = [req EXCEPT ![r] = q]
    BY <1>2, <1>5, <2>1, <2>3
  <2>5. PersistTimeout \in Nat
    BY PipelineAssumption
  <2>6. /\ q \in LiveRequests /\ q.stage = "persist" /\ q.answer = o /\ q.origin = origin
        /\ q.left = PersistTimeout /\ q.acquired /\ q.in = x.in /\ q.subject = x.subject
        /\ q.entitled = x.entitled
    BY <1>3, <2>2, <2>3, <2>5 DEF LiveRequests
  <2>7. IdentityOf(q) = origin
    BY <2>2, <2>6 DEF IdentityOf
  <2>8. /\ Granted(q.in, grants) => q.entitled
        /\ AuthzEnabled /\ Protected(q.in) => q.entitled
    BY <2>2, <2>6 DEF LiveOK, PastAuthz
  <2>9. q.stage \in StagesOf(q.in.transport) /\ q.in.key \in Keys
    <3>1. x.in.key \in Keys /\ x.in.transport # "stream"
      BY <2>2 DEF LiveOK
    <3>2. x.in \in Inputs
      BY <1>1, <2>1
    <3> QED
      BY <2>6, <3>1, <3>2, PipelineAssumption DEF StagesOf
  <2>10. LiveOK(q, grants)
    BY <1>3, <2>1, <2>2, <2>5, <2>6, <2>7, <2>8, <2>9 DEF LiveOK
  <2> QED
    BY <1>1, <2>4, <2>6, <2>10, SlotKeeps DEF Slots
<1> QED
  BY <1>4, <1>5

\* The result is stored under the request's own record, or not at all.
LEMMA PersistKeeps ==
  ASSUME PipelineInv, NEW r \in Requests, Persist(r) PROVE PipelineInv'
<1>1. /\ req[r].stage = "persist" /\ UNCHANGED grants
      /\ req[r] \in LiveRequests /\ LiveOK(req[r], grants) /\ req[r].in \in Inputs
  BY InFlightIsLive DEF Persist
<1>2. PICK o \in Outcomes, origin \in Identities, k \in Keys :
        /\ o = req[r].answer /\ origin = req[r].origin /\ origin = Identity(r)
        /\ k = req[r].in.key /\ Honest(o, origin)
  <2>1. /\ req[r].answer \in Outcomes /\ req[r].in.key \in Keys
        /\ req[r].origin = Identity(r) /\ Honest(req[r].answer, req[r].origin)
    BY <1>1, Fingerprints DEF LiveOK, LiveRequests
  <2> QED
    BY <1>1, <2>1, Fingerprints
<1>3. PICK q \in Slots : /\ req' = [req EXCEPT ![r] = q]
                         /\ LiveOK(q, grants) /\ q.stage = "answered"
  BY <1>1, <1>2, AnswerOK DEF Persist
<1>4. CASE UNCHANGED record
  BY <1>1, <1>3, <1>4, SlotKeeps
<1>5. PICK rec : rec = [state |-> IF o # "ok" THEN "failed" ELSE "completed",
                        fp |-> Fingerprint(r), owner |-> r, outcome |-> o,
                        origin |-> origin, ttl |-> IF o # "ok" THEN FailureTTL ELSE ResultTTL]
  OBVIOUS
<1>6. /\ rec.state = (IF o # "ok" THEN "failed" ELSE "completed") /\ rec.fp = Hash(origin)
      /\ rec.owner = r /\ rec.outcome = o /\ rec.origin = origin
      /\ rec.ttl = IF o # "ok" THEN FailureTTL ELSE ResultTTL
  BY <1>1, <1>2, <1>5, Fingerprints
<1>7. rec \in Records
  <2>1. FailureTTL \in Nat /\ ResultTTL \in Nat
    BY PipelineAssumption
  <2>2. Fingerprint(r) \in {Hash(i) : i \in Identities} /\ origin \in Origins
    BY <1>1, <1>2, Fingerprints DEF Origins
  <2> QED
    BY <1>5, <2>1, <2>2 DEF Records
<1>8. RecordOK(rec)
  BY <1>2, <1>6, PipelineAssumption DEF RecordOK
<1>9. CASE /\ record[k] # NoRecord /\ record[k].owner = r
           /\ record' = [record EXCEPT ![k] = rec]
  BY <1>1, <1>3, <1>7, <1>8, <1>9, WriteKeeps
<1>10. \/ UNCHANGED record
       \/ /\ record[k] # NoRecord /\ record[k].owner = r
          /\ record' = [record EXCEPT ![k] = rec]
  <2>1. Store(k, r, rec) \/ UNCHANGED record
    BY <1>2, <1>5 DEF Persist
  <2> QED
    BY <2>1 DEF Store
<1> QED
  BY <1>4, <1>9, <1>10

-----------------------------------------------------------------------------
(* Time and permissions *)

\* A request whose permission may change stays in order: a new grant entitles it,
\* and a withdrawn one takes nothing back.
LEMMA GrantsKeep ==
  ASSUME PipelineInv, NEW p \in Revocable, Revoke(p) \/ Grant(p) PROVE PipelineInv'
<1>1. grants' \subseteq Permissions /\ UNCHANGED record
  BY PipelineAssumption DEF Revoke, Grant, PipelineInv, Shape
<1>2. RecordsInv'
  BY <1>1 DEF PipelineInv, RecordsInv
<1>3. CASE Revoke(p)
  <2>1. \A i : Granted(i, grants') => Granted(i, grants)
    BY <1>3 DEF Revoke, Granted
  <2>2. UNCHANGED req
    BY <1>3 DEF Revoke
  <2>3. SlotsInv'
    BY <2>1, <2>2 DEF PipelineInv, SlotsInv, LiveOK
  <2> QED
    BY <1>1, <1>2, <2>2, <2>3 DEF PipelineInv, Shape, Held, Executing
<1>4. CASE Grant(p)
  <2>1. ASSUME NEW r \in Requests
        PROVE  /\ req'[r] \in Slots
               /\ req'[r] \in LiveRequests => LiveOK(req'[r], grants')
               /\ InFlight(r) \/ InFlight(r)' =>
                    /\ req'[r].stage = req[r].stage /\ req'[r].in = req[r].in
                    /\ req'[r].left = req[r].left /\ req'[r].acquired = req[r].acquired
    <3>1. CASE ~InFlight(r)
      <4>1. req'[r] = req[r]
        BY <1>4, <3>1 DEF Grant
      <4>2. req[r] \in LiveRequests => LiveOK(req[r], grants) /\ req[r].stage = "answered"
        BY <3>1 DEF PipelineInv, SlotsInv, InFlight, LiveRequests
      <4>3. req[r] \in LiveRequests => LiveOK(req[r], grants')
        BY <4>2 DEF LiveOK
      <4> QED
        BY <3>1, <4>1, <4>3 DEF PipelineInv, Shape, InFlight
    <3>2. CASE InFlight(r)
      <4>1. PICK x : x = req[r] /\ x \in LiveRequests /\ LiveOK(x, grants)
        BY <3>2, InFlightIsLive DEF InFlight
      <4>3. PICK q : q = [x EXCEPT !.entitled = x.entitled \/ Granted(x.in, grants')]
        OBVIOUS
      <4>4. req'[r] = q
        BY <1>4, <3>2, <4>1, <4>3 DEF Grant
      <4>5. (x.entitled \/ Granted(x.in, grants')) \in BOOLEAN
        OBVIOUS
      <4>6. /\ q \in LiveRequests /\ q.stage = x.stage /\ q.answer = x.answer
            /\ q.origin = x.origin /\ q.left = x.left /\ q.acquired = x.acquired
            /\ q.in = x.in /\ q.subject = x.subject
            /\ q.entitled <=> (x.entitled \/ Granted(x.in, grants'))
        BY <4>1, <4>3, <4>5 DEF LiveRequests
      <4>7. IdentityOf(q) = IdentityOf(x)
        BY <4>6 DEF IdentityOf
      <4>8. LiveOK(q, grants')
        BY <4>1, <4>6, <4>7 DEF LiveOK
      <4> QED
        BY <4>1, <4>4, <4>6, <4>8 DEF Slots
    <3> QED
      BY <3>1, <3>2
  <2>2. Shape'
    <3>1. req' \in [Requests -> Slots]
      BY <1>4, <2>1 DEF Grant
    <3> QED
      BY <1>1, <3>1 DEF PipelineInv, Shape
  <2>3. SlotsInv'
    BY <2>1 DEF SlotsInv
  <2>4. Held'
    <3> SUFFICES ASSUME NEW r \in Requests, Executing(r)'
                 PROVE  LET rec == record[req'[r].in.key] IN
                        /\ rec \in Records
                        /\ rec.owner = r /\ rec.state = "processing" /\ rec.ttl > req'[r].left
      BY <1>1 DEF Held
    <3>1. InFlight(r)'
      BY DEF Executing, InFlight
    <3>2. Executing(r) /\ req'[r].in = req[r].in /\ req'[r].left = req[r].left
      BY <2>1, <3>1 DEF Executing
    <3> QED
      BY <3>2 DEF PipelineInv, Held
  <2> QED
    BY <1>2, <2>2, <2>3, <2>4 DEF PipelineInv
<1> QED
  BY <1>3, <1>4

\* Time runs for requests and records alike: a record that outlives its request
\* does so a moment later.
LEMMA TickKeeps ==
  ASSUME PipelineInv, Tick PROVE PipelineInv'
<1>1. ASSUME NEW r \in Requests
      PROVE  /\ req'[r] \in Slots
             /\ req'[r] \in LiveRequests => LiveOK(req'[r], grants)
             /\ Deadline(r) => /\ req'[r].stage = req[r].stage /\ req'[r].in = req[r].in
                               /\ req'[r].acquired = req[r].acquired
                               /\ req[r].left \in Nat \ {0} /\ req'[r].left = req[r].left - 1
             /\ ~Deadline(r) => req'[r] = req[r]
  <2>1. CASE ~Deadline(r)
    BY <2>1 DEF Tick, PipelineInv, Shape, SlotsInv
  <2>2. CASE Deadline(r)
    <3>1. PICK x : x = req[r] /\ x \in LiveRequests /\ LiveOK(x, grants)
      BY <2>2, InFlightIsLive DEF Deadline, InFlight
    <3>2. x.left \in Nat /\ x.left > 0
      BY <2>2, <3>1 DEF Tick, LiveRequests
    <3>3. PICK q : q = [x EXCEPT !.left = x.left - 1]
      OBVIOUS
    <3>4. req'[r] = q
      BY <2>2, <3>1, <3>3 DEF Tick
    <3>5. x.left - 1 \in Nat /\ x.left - 1 < x.left
      BY <3>2
    <3>6. /\ q \in LiveRequests /\ q.stage = x.stage /\ q.answer = x.answer
          /\ q.origin = x.origin /\ q.left = x.left - 1 /\ q.acquired = x.acquired
          /\ q.in = x.in /\ q.subject = x.subject /\ q.entitled = x.entitled
      BY <3>1, <3>3, <3>5 DEF LiveRequests
    <3>7. IdentityOf(q) = IdentityOf(x)
      BY <3>6 DEF IdentityOf
    <3>8. q.left <= IF q.stage = "persist" THEN PersistTimeout ELSE RequestTimeout
      BY <3>1, <3>2, <3>6, PipelineAssumption DEF LiveOK
    <3>9. LiveOK(q, grants)
      BY <3>1, <3>6, <3>7, <3>8 DEF LiveOK
    <3> QED
      BY <2>2, <3>1, <3>2, <3>4, <3>6, <3>9 DEF Slots
  <2> QED
    BY <2>1, <2>2
<1>2. ASSUME NEW k \in Keys
      PROVE  \/ record'[k] = NoRecord /\ (record[k] = NoRecord \/ record[k].ttl = 1)
             \/ /\ record[k] \in Records /\ record[k].ttl > 1 /\ record'[k] \in Records
                /\ record'[k].ttl = record[k].ttl - 1
                /\ record'[k].state = record[k].state /\ record'[k].fp = record[k].fp
                /\ record'[k].owner = record[k].owner
                /\ record'[k].outcome = record[k].outcome
                /\ record'[k].origin = record[k].origin
  <2>1. CASE record[k] = NoRecord \/ record[k].ttl = 1
    BY <2>1 DEF Tick
  <2>2. CASE record[k] # NoRecord /\ record[k].ttl # 1
    <3>1. PICK rec \in Records : rec = record[k]
      BY <2>2 DEF PipelineInv, Shape
    <3>2. rec.ttl \in Nat /\ rec.ttl > 1
      BY <2>2, <3>1 DEF PipelineInv, RecordsInv, RecordOK, Records
    <3>3. record'[k] = [rec EXCEPT !.ttl = rec.ttl - 1]
      BY <2>2, <3>1 DEF Tick
    <3>4. rec.ttl - 1 \in Nat
      BY <3>2
    <3> QED
      BY <3>1, <3>2, <3>3, <3>4 DEF Records
  <2> QED
    BY <2>1, <2>2
<1>3. Shape'
  <2>1. req' \in [Requests -> Slots]
    BY <1>1 DEF Tick
  <2>2. record' \in [Keys -> Records \cup {NoRecord}]
    BY <1>2 DEF Tick
  <2> QED
    BY <2>1, <2>2 DEF Tick, PipelineInv, Shape
<1>4. SlotsInv'
  BY <1>1 DEF Tick, SlotsInv
<1>5. RecordsInv'
  <2> SUFFICES ASSUME NEW k \in Keys, record'[k] # NoRecord PROVE RecordOK(record'[k])
    BY DEF RecordsInv
  <2>1. RecordOK(record[k]) /\ record[k].ttl \in Nat
    <3>1. record[k] # NoRecord
      BY <1>2 DEF NoRecord, Records
    <3> QED
      BY <1>2, <3>1 DEF PipelineInv, RecordsInv, Records
  <2> QED
    BY <1>2, <2>1, PipelineAssumption DEF RecordOK
<1>6. Held'
  <2> SUFFICES ASSUME NEW r \in Requests, Executing(r)'
               PROVE  LET rec == record'[req'[r].in.key] IN
                      /\ rec \in Records
                      /\ rec.owner = r /\ rec.state = "processing" /\ rec.ttl > req'[r].left
    BY DEF Held
  <2>1. Deadline(r) /\ Executing(r)
    BY <1>1 DEF Executing, Deadline, InFlight
  <2>2. PICK k \in Keys : k = req[r].in.key
    BY <2>1, InFlightIsLive DEF Executing, LiveOK
  <2>3. /\ record[k] \in Records /\ record[k].owner = r /\ record[k].state = "processing"
        /\ record[k].ttl > req[r].left /\ record[k].ttl \in Nat
    BY <2>1, <2>2 DEF PipelineInv, Held, Records
  <2>4. /\ req'[r].in.key = k /\ req[r].left \in Nat \ {0}
        /\ req'[r].left = req[r].left - 1
    BY <1>1, <2>1, <2>2
  <2>5. record[k] # NoRecord /\ record[k].ttl # 1
    BY <2>3, <2>4 DEF NoRecord, Records
  <2> QED
    BY <1>2, <2>2, <2>3, <2>4, <2>5
<1> QED
  BY <1>3, <1>4, <1>5, <1>6 DEF PipelineInv

-----------------------------------------------------------------------------
(* The theorems *)

\* Empty slots, no records and the initial permissions are in order.
LEMMA PipelineInit == Init => PipelineInv
<1> SUFFICES ASSUME Init PROVE PipelineInv
  OBVIOUS
<1>1. \A r \in Requests : req[r] = NoRequest
  BY DEF Init
<1> QED
  BY <1>1, IdleSlots DEF Init, PipelineInv, Shape, SlotsInv, RecordsInv, Held, Executing

\* The invariant holds in every reachable state.
THEOREM PipelineInvariant == Spec => []PipelineInv
<1>1. PipelineInv /\ [Next]_vars => PipelineInv'
  <2> SUFFICES ASSUME PipelineInv, [Next]_vars PROVE PipelineInv'
    OBVIOUS
  <2>1. ASSUME NEW r \in Requests, Step(r) PROVE PipelineInv'
    BY <2>1, RateLimitKeeps, AuthenticateKeeps, AuthorizeKeeps, BeginKeeps, HandleKeeps,
       PersistKeeps
    DEF Step
  <2>2. ASSUME NEW r \in Requests, Panic(r) \/ Crash(r) PROVE PipelineInv'
    BY <2>2, RefuseKeeps DEF Panic, Crash, Errors
  <2>3. CASE UNCHANGED vars
    BY <2>3
    DEF vars, PipelineInv, Shape, SlotsInv, RecordsInv, Held, Executing
  <2> QED
    BY <2>1, <2>2, <2>3, ArriveKeeps, TickKeeps, GrantsKeep DEF Next
<1> QED
  BY <1>1, PipelineInit, PTL DEF Spec

\* Slots, records and grants keep their shape: a failure's record is gone after the
\* failure TTL, and the deadline of a request is never overrun.
THEOREM PipelineTypeCorrect == Spec => []PipelineTypeOK
<1>1. PipelineInv => PipelineTypeOK
  <2> SUFFICES ASSUME PipelineInv PROVE PipelineTypeOK
    OBVIOUS
  <2>1. ASSUME NEW r \in Requests, req[r] \in LiveRequests
        PROVE  /\ req[r].stage \in {"limit", "authn", "authz", "user", "begin", "handler",
                                    "persist", "answered"}
               /\ req[r].in \in Inputs
               /\ req[r].subject \in Users \cup {"psk", Nobody}
               /\ req[r].left \in 0..(IF req[r].stage = "persist" THEN PersistTimeout
                                                                  ELSE RequestTimeout)
               /\ req[r].answer \in Outcomes
    <3>1. LiveOK(req[r], grants)
      BY <2>1 DEF PipelineInv, SlotsInv
    <3>2. PersistTimeout \in Nat /\ RequestTimeout \in Nat
      BY PipelineAssumption
    <3> QED
      BY <2>1, <3>1, <3>2 DEF LiveOK, LiveRequests, Subjects
  <2>2. ASSUME NEW k \in Keys, record[k] # NoRecord
        PROVE  record[k] \in Records /\ RecordOK(record[k])
    BY <2>2 DEF PipelineInv, Shape, RecordsInv
  <2>3. ASSUME NEW r \in Requests
        PROVE  \/ req[r] = NoRequest
               \/ \E e \in Errors : req[r] = Refused(e)
               \/ req[r] \in LiveRequests
    BY DEF PipelineInv, Shape, Slots
  <2> QED
    BY <2>1, <2>2, <2>3 DEF PipelineTypeOK, PipelineInv, Shape, Records, RecordOK
<1> QED
  BY <1>1, PipelineInvariant, PTL

\* Two HTTP requests under one key never execute at once, for every request
\* timeout that is shorter than the processing TTL.
THEOREM KeysAreExclusive == Spec => []OneExecutionPerKey
<1>1. PipelineInv => OneExecutionPerKey
  BY DEF PipelineInv, Held, Executing, OneExecutionPerKey
<1> QED
  BY <1>1, PipelineInvariant, PTL

\* A request is answered with a result computed for its own caller, operation,
\* tenant and input, fresh or replayed, whatever records expired in between.
THEOREM ResultsBelong == Spec => []ResultsBelongToRequest
<1>1. PipelineInv => ResultsBelongToRequest
  <2> SUFFICES ASSUME PipelineInv, NEW r \in Requests, req[r].stage = "answered"
               PROVE  req[r].origin = Identity(r)
    BY DEF ResultsBelongToRequest
  <2> QED
    BY InFlightIsLive, Fingerprints DEF LiveOK
<1> QED
  BY <1>1, PipelineInvariant, PTL

\* No result of a file operation reaches a sender without a good credential and a
\* permission that was granted while the request was in flight.
THEOREM ResultsAreEntitled == Spec => []ResultsOnlyForEntitled
<1>1. PipelineInv => ResultsOnlyForEntitled
  <2> SUFFICES ASSUME PipelineInv, NEW r \in Requests, req[r].stage = "answered",
                      Protected(req[r].in)
               PROVE  /\ AuthzEnabled => req[r].entitled
                      /\ req[r].answer = "ok" =>
                           /\ Sender(req[r].in) # Nobody
                           /\ Sender(req[r].in) \in Users => req[r].in.tenant = "own"
    BY DEF ResultsOnlyForEntitled
  <2>1. LiveOK(req[r], grants)
    BY InFlightIsLive
  <2>2. AuthzEnabled => req[r].entitled
    BY <2>1 DEF LiveOK, PastAuthz
  <2>3. ASSUME req[r].answer = "ok"
        PROVE  /\ Sender(req[r].in) # Nobody
               /\ Sender(req[r].in) \in Users => req[r].in.tenant = "own"
    <3>1. PICK o : o = IdentityOf(req[r]) /\ Honest("ok", o)
      BY <2>1, <2>3 DEF LiveOK
    <3>2. /\ o.subject = req[r].subject /\ o.tenant = req[r].in.tenant
          /\ o.transport = req[r].in.transport /\ o.op = req[r].in.op
      BY <3>1 DEF IdentityOf
    <3>3. Protected(o)
      BY <3>2 DEF Protected, Requirement
    <3>4. req[r].subject # Nobody /\ (req[r].subject \in Users => req[r].in.tenant = "own")
      BY <3>1, <3>2, <3>3 DEF Honest
    <3>5. req[r].subject = Sender(req[r].in)
      BY <2>1, <3>4 DEF LiveOK
    <3> QED
      BY <3>4, <3>5
  <2> QED
    BY <2>2, <2>3
<1> QED
  BY <1>1, PipelineInvariant, PTL

=============================================================================
