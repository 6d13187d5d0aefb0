---------------------------- MODULE OutboundCall ----------------------------
(***************************************************************************)
(* Calls to other services: the HTTP client of internal/outbound and the   *)
(* gRPC client of internal/grpcclient.  A call asks the circuit breaker    *)
(* once, is sent up to MaxAttempts times with pauses in between, and tells *)
(* the breaker how it ended.  The breaker is gobreaker's; each transport   *)
(* stands for one upstream with a breaker of its own.                      *)
(***************************************************************************)
EXTENDS Naturals

CONSTANTS
  Calls,          \* slots for calls in progress; a slot is used again
  Kinds,          \* the calls that are made
  MaxAttempts,    \* cfg.Retry.MaxAttempts
  Threshold,      \* cfg.Breaker.FailureThreshold
  BreakerEnabled  \* cfg.Breaker.Enabled

Transports == {"http", "grpc"}

\* A kind of call.  repeatable: an HTTP method that may be repeated, or a gRPC
\* method the configuration lists; key: the context carries an idempotency key;
\* header: the caller passes it as a header too.  validateClientPolicy accepts 1
\* to 5 attempts and a positive threshold.
ASSUME OutboundAssumption ==
  /\ Kinds \subseteq [t : Transports, repeatable : BOOLEAN, key : BOOLEAN, header : BOOLEAN]
  /\ MaxAttempts \in 1..5
  /\ Threshold \in Nat \ {0}
  /\ BreakerEnabled \in BOOLEAN

VARIABLES
  calls,    \* the call in each slot
  breaker,  \* the breaker of each upstream
  up,       \* do the upstreams answer?
  asks      \* does gobreaker ask IsExcluded about a call without error?

vars == <<calls, breaker, up, asks>>

-----------------------------------------------------------------------------
NoCall == [pc |-> "idle"]

\* A call that has returned: what the caller got and the bodies that are still open.
Over(t, result, bodies) == [pc |-> "done", t |-> t, result |-> result, bodies |-> bodies]

\* What a caller may get.
Results == {"ok", "refused", "busy", "error", "rejected"}

InProgress(c) == calls[c].pc \in {"wait", "backoff"}

Closed == [state |-> "closed", failures |-> 0, trial |-> FALSE]
Open == [state |-> "open", failures |-> 0, trial |-> FALSE]
HalfOpen == [state |-> "half_open", failures |-> 0, trial |-> FALSE]

\* The shape of calls and breakers; a trial belongs to a breaker that is half open.
CallTypeOK ==
  /\ \A c \in Calls :
       \/ calls[c] = NoCall
       \/ /\ calls[c].pc \in {"wait", "backoff"}
          /\ calls[c].kind \in Kinds
          /\ calls[c].sent \in 1..MaxAttempts
          /\ {calls[c].current} \subseteq BOOLEAN
       \/ \E t \in Transports, result \in Results, bodies \in 0..1 :
            calls[c] = Over(t, result, bodies)
  /\ \A t \in Transports :
       /\ breaker[t].state \in {"closed", "open", "half_open"}
       /\ breaker[t].failures < Threshold
       /\ breaker[t].trial => breaker[t].state = "half_open"
  /\ {up, asks} \subseteq BOOLEAN

Init ==
  /\ calls = [c \in Calls |-> NoCall]
  /\ breaker = [t \in Transports |-> Closed]
  /\ up = TRUE
  /\ asks \in BOOLEAN

-----------------------------------------------------------------------------
(* Retry policy *)

\* Fault: every method is taken for one that may be repeated.
RetryableMethod_Any(kind) == kind.t = "http"

\* GET, HEAD, OPTIONS, PUT, DELETE, or a key in the context.
RetryableMethod(kind) == kind.t = "http" /\ (kind.repeatable \/ kind.key)

\* A configured method, or a key in the context.
RetryGRPCMethod(kind) == kind.t = "grpc" /\ (kind.repeatable \/ kind.key)

AttemptsAllowed(kind) ==
  IF RetryableMethod(kind) \/ RetryGRPCMethod(kind) THEN MaxAttempts ELSE 1

\* What may come back of an attempt.  "ok" stands for every HTTP status that is
\* final and for success of gRPC, "refused" for a gRPC status that is the
\* application's answer, "busy" for 429, 502, 503, 504 or Unavailable and
\* ResourceExhausted, "error" for a call without an answer (HTTP) or past its
\* deadline (gRPC).
Replies(t) ==
  IF ~up THEN {"busy", "error"}
  ELSE IF t = "grpc" THEN {"ok", "refused"} ELSE {"ok"}

\* doWithRetry repeats after an answer that asks for it and after no answer.
HTTPRepeats(reply) == reply \in {"busy", "error"}

\* retryInterceptor repeats after Unavailable and ResourceExhausted only.
GRPCRepeats(reply) == reply = "busy"

Repeats(t, reply) == IF t = "http" THEN HTTPRepeats(reply) ELSE GRPCRepeats(reply)

\* Does the idempotency key travel with the call?  The HTTP client sends the
\* headers it is given; the gRPC client adds the key of the context.
Carried(kind) == IF kind.t = "http" THEN kind.header ELSE kind.key

-----------------------------------------------------------------------------
(* Circuit breaker *)

\* IsExcluded of the HTTP client: a call its caller cancelled.
HTTPExcluded(end) == end = "cancelled"

\* IsExcluded of the gRPC client: all but Unavailable, ResourceExhausted and
\* DeadlineExceeded.  Success is such a code; the context's own error in a pause
\* has none of the three either.
GRPCExcluded(end) == \/ end \in {"cancelled", "expired", "refused"}
                     \/ end = "ok" /\ asks

Excluded(t, end) == IF t = "http" THEN HTTPExcluded(end) ELSE GRPCExcluded(end)

\* Results of calls that began in an earlier state of the breaker are ignored.
Outdate(t) == [c \in Calls |-> IF InProgress(c) /\ calls[c].kind.t = t
                               THEN [calls[c] EXCEPT !.current = FALSE] ELSE calls[c]]

\* Fault: the breaker trips one failure late.
AfterRequest_Late(t, current, end) ==
  LET b == breaker[t]
      failures == b.failures + 1
  IN IF ~BreakerEnabled \/ ~current THEN b
     ELSE IF Excluded(t, end) THEN [b EXCEPT !.trial = FALSE]
     ELSE IF end = "ok" THEN Closed
     ELSE IF b.state = "half_open" \/ failures > Threshold THEN Open
     ELSE [b EXCEPT !.failures = failures]

\* Fault: a trial that is excluded does not give its place back.
AfterRequest_KeepsTrial(t, current, end) ==
  LET b == breaker[t]
      failures == b.failures + 1
  IN IF ~BreakerEnabled \/ ~current \/ Excluded(t, end) THEN b
     ELSE IF end = "ok" THEN Closed
     ELSE IF b.state = "half_open" \/ failures >= Threshold THEN Open
     ELSE [b EXCEPT !.failures = failures]

\* The breaker after a call has ended: one call counts once, however often it
\* was sent.  An excluded trial gives its place back.
AfterRequest(t, current, end) ==
  LET b == breaker[t]
      failures == b.failures + 1
  IN IF ~BreakerEnabled \/ ~current THEN b
     ELSE IF Excluded(t, end) THEN [b EXCEPT !.trial = FALSE]
     ELSE IF end = "ok" THEN Closed
     ELSE IF b.state = "half_open" \/ failures >= Threshold THEN Open
     ELSE [b EXCEPT !.failures = failures]

-----------------------------------------------------------------------------
(* A call *)

\* bodies counts the responses whose bodies are open.
NewCall(kind) == [pc |-> "wait", kind |-> kind, sent |-> 1, bodies |-> 0, current |-> TRUE]

Admits(t) == \/ ~BreakerEnabled
             \/ breaker[t].state = "closed"
             \/ breaker[t].state = "half_open" /\ ~breaker[t].trial

\* Execute admits the call, and the first attempt is sent.
Start(c, kind) ==
  LET t == kind.t IN
  /\ ~InProgress(c)
  /\ Admits(t)
  /\ calls' = [calls EXCEPT ![c] = NewCall(kind)]
  /\ breaker' = [breaker EXCEPT ![t].trial = breaker[t].state = "half_open"]
  /\ UNCHANGED <<up, asks>>

\* ErrOpenState or ErrTooManyRequests; nothing is sent.
Rejected(c, kind) ==
  /\ ~InProgress(c)
  /\ ~Admits(kind.t)
  /\ calls' = [calls EXCEPT ![c] = Over(kind.t, "rejected", 0)]
  /\ UNCHANGED <<breaker, up, asks>>

\* Fault: the response of a call the breaker counts as failed is dropped.
Returned_StatusIsError(t, end) == IF end \in {"ok", "refused"} THEN end ELSE "error"

\* What the caller gets.  A response with a status the breaker counts as a
\* failure is handed to the caller all the same; gRPC returns the error.
Returned(t, end) ==
  IF end \in {"ok", "refused"} \/ (end = "busy" /\ t = "http") THEN end ELSE "error"

\* Execute returns: the breaker learns the end and the caller gets the rest.
Return(c, t, current, end, bodies) ==
  LET after == AfterRequest(t, current, end)
      others == IF after.state # breaker[t].state THEN Outdate(t) ELSE calls
  IN
  /\ breaker' = [breaker EXCEPT ![t] = after]
  /\ calls' = [others EXCEPT ![c] = Over(t, Returned(t, end), bodies)]

\* The loop is left.
End(c, end, bodies) == Return(c, calls[c].kind.t, calls[c].current, end, bodies)

\* A path that is not relative, or a request that cannot be made: nothing is sent,
\* and the breaker, which has admitted the call, counts a failure.
Malformed(c, kind) ==
  /\ ~InProgress(c)
  /\ kind.t = "http"
  /\ Admits(kind.t)
  /\ Return(c, kind.t, TRUE, "error", 0)
  /\ UNCHANGED <<up, asks>>

\* An attempt comes back.  HTTP answers have a body; the body of an answer that
\* is not returned is closed before the pause.
Reply(c) ==
  /\ calls[c].pc = "wait"
  /\ \E reply \in Replies(calls[c].kind.t) :
       IF Repeats(calls[c].kind.t, reply) /\ calls[c].sent < AttemptsAllowed(calls[c].kind)
       THEN /\ calls' = [calls EXCEPT ![c].pc = "backoff"]
            /\ UNCHANGED breaker
       ELSE End(c, reply, calls[c].bodies +
                  IF calls[c].kind.t = "http" /\ reply # "error" THEN 1 ELSE 0)
  /\ UNCHANGED <<up, asks>>

\* Fault: the loop pauses without counting the attempt.
Resume_Forgets(c) ==
  /\ calls[c].pc = "backoff"
  /\ calls' = [calls EXCEPT ![c].pc = "wait", ![c].sent = 1]
  /\ UNCHANGED <<breaker, up, asks>>

\* The pause is over and the call is sent again.
Resume(c) ==
  /\ calls[c].pc = "backoff"
  /\ calls' = [calls EXCEPT ![c].pc = "wait", ![c].sent = @ + 1]
  /\ UNCHANGED <<breaker, up, asks>>

\* The caller's context ends in the pause.
GiveUp(c) ==
  /\ calls[c].pc = "backoff"
  /\ \E end \in {"cancelled", "expired"} : End(c, end, calls[c].bodies)
  /\ UNCHANGED <<up, asks>>

\* The caller's context ends while an upstream does not answer.
Cancel(c) ==
  /\ calls[c].pc = "wait"
  /\ ~up
  /\ End(c, "cancelled", calls[c].bodies)
  /\ UNCHANGED <<up, asks>>

\* OpenTimeout is over.
Retest(t) ==
  /\ breaker[t].state = "open"
  /\ breaker' = [breaker EXCEPT ![t] = HalfOpen]
  /\ calls' = Outdate(t)
  /\ UNCHANGED <<up, asks>>

Outage == up' = ~up /\ UNCHANGED <<calls, breaker, asks>>

Next ==
  \/ \E c \in Calls :
       \/ \E kind \in Kinds : Start(c, kind) \/ Malformed(c, kind) \/ Rejected(c, kind)
       \/ Reply(c) \/ Resume(c) \/ GiveUp(c) \/ Cancel(c)
  \/ \E t \in Transports : Retest(t)
  \/ Outage

\* An attempt ends with the client's timeout, a pause and OpenTimeout with their
\* timers, and both upstreams keep being called, with requests that can be sent.
Fairness ==
  /\ \A c \in Calls : WF_vars(Reply(c) \/ Resume(c))
  /\ \A t \in Transports :
       /\ WF_vars(Retest(t))
       /\ SF_vars(\E c \in Calls, kind \in {k \in Kinds : k.t = t} : Start(c, kind))

Spec == Init /\ [][Next]_vars /\ Fairness

-----------------------------------------------------------------------------
(* Properties *)

\* A call that is neither a repeatable method nor under an idempotency key is
\* sent at most once, whatever is lost and however late answers come.
UnsafeCallsSentOnce ==
  \A c \in Calls : InProgress(c) /\ ~calls[c].kind.repeatable /\ ~calls[c].kind.key =>
    calls[c].sent <= 1

\* When a call is over, the caller holds the one response body that is still
\* open if it got a response, and none is open if it got an error.
NoBodyLost ==
  \A c \in Calls : calls[c].pc = "done" =>
    calls[c].bodies = IF calls[c].t = "http" /\ calls[c].result \in {"ok", "busy"}
                      THEN 1 ELSE 0

\* Every call ends, whatever the upstream does.
EveryCallEnds == \A c \in Calls : InProgress(c) ~> calls[c].pc = "done"

\* When the upstreams answer again for good, calls to each get an answer again and
\* again: no breaker stays open, and no trial blocks the ones after it, however it
\* ends.
CallsGetThrough ==
  \A t \in Transports :
    <>[]up => []<>(\E c \in Calls : /\ calls[c].pc = "done"
                                    /\ calls[c].t = t
                                    /\ calls[c].result \in {"ok", "refused"})

\* README.md, Outbound clients: "POST/RPC retries are only enabled for configured
\* safe gRPC methods or calls carrying an idempotency key."  A call that may not be
\* repeated as such carries its key whenever it is sent again.
RepeatsCarryKey ==
  \A c \in Calls : InProgress(c) /\ ~calls[c].kind.repeatable /\ calls[c].sent > 1 =>
    Carried(calls[c].kind)

=============================================================================
