------------------------- MODULE OutboundCallProofs -------------------------
(* Proofs about OutboundCall, for any number of calls of any kinds, one to   *)
(* five attempts, and any threshold of the breaker.                          *)
EXTENDS OutboundCall, TLAPS

\* A call in its retry loop has no open body; one that pauses may be sent again.
Active == [pc : {"wait", "backoff"}, kind : Kinds, sent : 1..MaxAttempts,
           bodies : {0}, current : BOOLEAN]

\* A call that is over, with the bodies its caller has to close.
Finished == {Over(t, result, IF t = "http" /\ result \in {"ok", "busy"} THEN 1 ELSE 0) :
               t \in Transports, result \in Results}

\* The retry loop counts its attempts against the policy of the call.
WithinPolicy(x) ==
  /\ x.sent <= AttemptsAllowed(x.kind)
  /\ x.pc = "backoff" => x.sent < AttemptsAllowed(x.kind)

CallsInv ==
  /\ calls \in [Calls -> {NoCall} \cup Active \cup Finished]
  /\ \A c \in Calls : InProgress(c) => WithinPolicy(calls[c])

Breakers == [state : {"closed", "open", "half_open"}, failures : 0..(Threshold - 1),
             trial : BOOLEAN]

BreakerInv ==
  /\ breaker \in [Transports -> Breakers]
  /\ \A t \in Transports : breaker[t].trial => breaker[t].state = "half_open"

\* The inductive invariant.
CallInv == CallsInv /\ BreakerInv /\ up \in BOOLEAN /\ asks \in BOOLEAN

-----------------------------------------------------------------------------
(* Shapes and policy *)

\* The three shapes of a slot are told apart by pc.
LEMMA SlotShapes ==
  /\ NoCall.pc = "idle"
  /\ \A x \in Active : x.pc \in {"wait", "backoff"}
  /\ \A x \in Finished : x.pc = "done"
BY DEF NoCall, Active, Finished, Over

\* A call in progress is in its loop.
LEMMA InLoop ==
  ASSUME CallsInv, NEW c \in Calls, InProgress(c)
  PROVE  /\ calls[c] \in Active /\ WithinPolicy(calls[c])
         /\ calls[c].kind \in Kinds /\ calls[c].kind.t \in Transports
         /\ calls[c].sent \in 1..MaxAttempts /\ calls[c].current \in BOOLEAN
         /\ calls[c].bodies = 0
<1>1. calls[c] \in Active
  BY SlotShapes DEF CallsInv, InProgress
<1>2. calls[c].kind \in Kinds
  BY <1>1 DEF Active
<1>3. calls[c].kind.t \in Transports
  BY <1>2, OutboundAssumption
<1> QED
  BY <1>1, <1>2, <1>3 DEF CallsInv, Active

\* A policy allows at least one attempt and at most MaxAttempts.
LEMMA PolicyBounds ==
  \A kind \in Kinds : AttemptsAllowed(kind) \in 1..MaxAttempts
BY OutboundAssumption DEF AttemptsAllowed

\* gobreaker's states after a call has ended are states.
LEMMA AfterRequestTyped ==
  ASSUME BreakerInv, asks \in BOOLEAN, NEW t \in Transports, NEW current \in BOOLEAN, NEW end
  PROVE  /\ AfterRequest(t, current, end) \in Breakers
         /\ AfterRequest(t, current, end).trial => AfterRequest(t, current, end).state = "half_open"
<1> DEFINE b == breaker[t]
<1>0. Threshold \in Nat \ {0}
  BY OutboundAssumption
<1>1. b \in Breakers /\ (b.trial => b.state = "half_open")
  BY DEF BreakerInv
<1>2. /\ Closed \in Breakers /\ ~Closed.trial
      /\ Open \in Breakers /\ ~Open.trial
      /\ HalfOpen \in Breakers /\ ~HalfOpen.trial
  BY <1>0 DEF Closed, Open, HalfOpen, Breakers
<1>3. [b EXCEPT !.trial = FALSE] \in Breakers /\ ~[b EXCEPT !.trial = FALSE].trial
  BY <1>1 DEF Breakers
<1>4. ASSUME ~(b.failures + 1 >= Threshold)
      PROVE  /\ [b EXCEPT !.failures = b.failures + 1] \in Breakers
             /\ [b EXCEPT !.failures = b.failures + 1].trial = b.trial
             /\ [b EXCEPT !.failures = b.failures + 1].state = b.state
  <2>1. b.failures \in 0..(Threshold - 1)
    BY <1>1 DEF Breakers
  <2>2. b.failures + 1 \in 0..(Threshold - 1)
    BY <1>0, <1>4, <2>1
  <2> QED
    BY <1>1, <2>2 DEF Breakers
<1> HIDE DEF b
<1>5. AfterRequest(t, current, end) \in
        {b, [b EXCEPT !.trial = FALSE], Closed, Open}
        \/ /\ ~(b.failures + 1 >= Threshold)
           /\ AfterRequest(t, current, end) = [b EXCEPT !.failures = b.failures + 1]
  BY DEF AfterRequest, b
<1> QED
  BY <1>1, <1>2, <1>3, <1>4, <1>5

\* Telling the calls of a transport that their results will be ignored changes
\* nothing else about them.
LEMMA OutdateKeeps ==
  ASSUME CallsInv, NEW t \in Transports
  PROVE  /\ Outdate(t) \in [Calls -> {NoCall} \cup Active \cup Finished]
         /\ \A c \in Calls :
              /\ Outdate(t)[c].pc = calls[c].pc
              /\ InProgress(c) => /\ Outdate(t)[c].kind = calls[c].kind
                                  /\ Outdate(t)[c].sent = calls[c].sent
<1> SUFFICES ASSUME NEW c \in Calls
             PROVE  /\ Outdate(t)[c] \in {NoCall} \cup Active \cup Finished
                    /\ Outdate(t)[c].pc = calls[c].pc
                    /\ InProgress(c) => /\ Outdate(t)[c].kind = calls[c].kind
                                        /\ Outdate(t)[c].sent = calls[c].sent
  BY DEF Outdate
<1>1. CASE InProgress(c)
  <2>1. calls[c] \in Active
    BY <1>1, InLoop
  <2>2. Outdate(t)[c] \in {calls[c], [calls[c] EXCEPT !.current = FALSE]}
    BY DEF Outdate
  <2> QED
    BY <2>1, <2>2 DEF Active
<1>2. CASE ~InProgress(c)
  BY <1>2 DEF Outdate, CallsInv
<1> QED
  BY <1>1, <1>2

-----------------------------------------------------------------------------
(* The steps *)

\* All slots are empty and both breakers closed.
LEMMA CallInvInit == Init => CallInv
<1> SUFFICES ASSUME Init PROVE CallInv
  OBVIOUS
<1>1. Closed \in Breakers /\ ~Closed.trial
  BY OutboundAssumption DEF Closed, Breakers
<1> QED
  BY <1>1, SlotShapes DEF Init, CallInv, CallsInv, BreakerInv, InProgress

\* A slot that gets a call in order keeps the calls in order.
LEMMA SlotKeeps ==
  ASSUME NEW all \in [Calls -> {NoCall} \cup Active \cup Finished], NEW c \in Calls,
         \A d \in Calls : all[d].pc \in {"wait", "backoff"} => WithinPolicy(all[d]),
         NEW x \in Active \cup Finished, calls' = [all EXCEPT ![c] = x],
         x \in Active => WithinPolicy(x)
  PROVE  CallsInv'
<1>1. \A d \in Calls : calls'[d] = IF d = c THEN x ELSE all[d]
  OBVIOUS
<1>2. \A d \in Calls : InProgress(d)' => WithinPolicy(calls'[d])
  BY <1>1, SlotShapes DEF InProgress
<1> QED
  BY <1>2 DEF CallsInv, WithinPolicy, AttemptsAllowed, RetryableMethod, RetryGRPCMethod

\* However a call returns, breaker and calls stay in order, and the bodies left
\* open are those the caller gets.
LEMMA ReturnKeeps ==
  ASSUME CallInv, NEW c \in Calls, NEW t \in Transports, NEW current \in BOOLEAN,
         NEW end, NEW bodies, Return(c, t, current, end, bodies), UNCHANGED <<up, asks>>,
         end \in {"ok", "refused", "busy", "error", "cancelled", "expired"},
         bodies = IF t = "http" /\ end \in {"ok", "busy"} THEN 1 ELSE 0
  PROVE  CallInv'
<1> DEFINE after == AfterRequest(t, current, end)
           others == IF after.state # breaker[t].state THEN Outdate(t) ELSE calls
           x == Over(t, Returned(t, end), bodies)
<1>2. after \in Breakers /\ (after.trial => after.state = "half_open")
  BY AfterRequestTyped DEF CallInv
<1>3. breaker' = [breaker EXCEPT ![t] = after] /\ calls' = [others EXCEPT ![c] = x]
  BY DEF Return
<1>4. x \in Finished
  BY DEF Returned, Finished, Results, Transports
<1>5. /\ others \in [Calls -> {NoCall} \cup Active \cup Finished]
      /\ \A d \in Calls : /\ others[d].pc = calls[d].pc
                          /\ InProgress(d) => /\ others[d].kind = calls[d].kind
                                              /\ others[d].sent = calls[d].sent
  BY OutdateKeeps DEF CallInv, CallsInv
<1>6. BreakerInv'
  <2> HIDE DEF after
  <2> QED
    BY <1>2, <1>3 DEF CallInv, BreakerInv
<1> HIDE DEF others, x, after
<1>7. \A d \in Calls : others[d].pc \in {"wait", "backoff"} => WithinPolicy(others[d])
  BY <1>5 DEF CallInv, CallsInv, InProgress, WithinPolicy
<1>8. x \notin Active
  BY <1>4, SlotShapes
<1>9. CallsInv'
  BY <1>3, <1>4, <1>5, <1>7, <1>8, SlotKeeps
<1> QED
  BY <1>6, <1>9 DEF CallInv

\* A call that leaves its loop.
LEMMA EndKeeps ==
  ASSUME CallInv, NEW c \in Calls, InProgress(c), NEW end, NEW bodies, End(c, end, bodies),
         UNCHANGED <<up, asks>>,
         end \in {"ok", "refused", "busy", "error", "cancelled", "expired"},
         bodies = IF calls[c].kind.t = "http" /\ end \in {"ok", "busy"} THEN 1 ELSE 0
  PROVE  CallInv'
<1>1. calls[c].kind.t \in Transports /\ calls[c].current \in BOOLEAN
  BY InLoop DEF CallInv
<1> QED
  BY <1>1, ReturnKeeps DEF End

\* A call is admitted or refused, is sent, pauses, is sent again and ends.
LEMMA CallsKeepInv ==
  ASSUME CallInv, NEW c \in Calls,
         \/ \E kind \in Kinds : Start(c, kind) \/ Malformed(c, kind) \/ Rejected(c, kind)
         \/ Reply(c) \/ Resume(c) \/ GiveUp(c) \/ Cancel(c)
  PROVE  CallInv'
<1>0. /\ calls \in [Calls -> {NoCall} \cup Active \cup Finished]
      /\ \A d \in Calls : calls[d].pc \in {"wait", "backoff"} => WithinPolicy(calls[d])
  BY DEF CallInv, CallsInv, InProgress
<1>b. MaxAttempts \in 1..5
  BY OutboundAssumption
<1>1. ASSUME NEW kind \in Kinds, Start(c, kind) PROVE CallInv'
  <2>1. NewCall(kind) \in Active /\ NewCall(kind).sent = 1 /\ NewCall(kind).pc = "wait"
        /\ NewCall(kind).kind = kind
    BY <1>b DEF NewCall, Active
  <2>2. WithinPolicy(NewCall(kind))
    BY <1>b, <2>1, PolicyBounds DEF WithinPolicy
  <2>3. CallsInv'
    BY <1>0, <1>1, <2>1, <2>2, SlotKeeps DEF Start
  <2>4. kind.t \in Transports
    BY OutboundAssumption
  <2> DEFINE b == [breaker[kind.t] EXCEPT !.trial = breaker[kind.t].state = "half_open"]
  <2>5. b \in Breakers /\ (b.trial => b.state = "half_open")
    BY <2>4 DEF CallInv, BreakerInv, Breakers
  <2>6. breaker' = [breaker EXCEPT ![kind.t] = b] /\ UNCHANGED <<up, asks>>
    BY <1>1 DEF Start
  <2> HIDE DEF b
  <2>7. BreakerInv'
    BY <2>4, <2>5, <2>6 DEF CallInv, BreakerInv
  <2> QED
    BY <2>3, <2>6, <2>7 DEF CallInv
<1>2. ASSUME NEW kind \in Kinds, Rejected(c, kind) PROVE CallInv'
  <2>1. kind.t \in Transports
    BY OutboundAssumption
  <2>2. Over(kind.t, "rejected", 0) \in Finished
    BY <2>1 DEF Finished, Results
  <2>3. Over(kind.t, "rejected", 0) \notin Active
    BY <2>2, SlotShapes
  <2>4. CallsInv'
    BY <1>0, <1>2, <2>2, <2>3, SlotKeeps DEF Rejected
  <2> QED
    BY <1>2, <2>4 DEF Rejected, CallInv, BreakerInv
<1>3. CASE Reply(c)
  <2>1. PICK reply \in Replies(calls[c].kind.t) :
          IF Repeats(calls[c].kind.t, reply) /\ calls[c].sent < AttemptsAllowed(calls[c].kind)
          THEN /\ calls' = [calls EXCEPT ![c].pc = "backoff"]
               /\ UNCHANGED breaker
          ELSE End(c, reply, calls[c].bodies +
                     IF calls[c].kind.t = "http" /\ reply # "error" THEN 1 ELSE 0)
    BY <1>3 DEF Reply
  <2>2. InProgress(c) /\ calls[c].pc = "wait" /\ UNCHANGED <<up, asks>>
    BY <1>3 DEF Reply, InProgress
  <2>3. /\ calls[c] \in Active /\ calls[c].bodies = 0
        /\ reply \in {"ok", "refused", "busy", "error"}
        /\ calls[c].kind.t = "http" => reply # "refused"
    BY <2>2, InLoop DEF CallInv, Replies
  <2>4. CASE Repeats(calls[c].kind.t, reply) /\ calls[c].sent < AttemptsAllowed(calls[c].kind)
    <3> DEFINE x == [calls[c] EXCEPT !.pc = "backoff"]
    <3>1. x \in Active /\ x.sent = calls[c].sent /\ x.kind = calls[c].kind
      BY <2>3 DEF Active
    <3>2. calls' = [calls EXCEPT ![c] = x] /\ UNCHANGED breaker
      BY <2>1, <2>4
    <3> HIDE DEF x
    <3>3. WithinPolicy(x)
      BY <2>2, <2>4, <3>1, InLoop DEF CallInv, WithinPolicy
    <3>4. CallsInv'
      BY <1>0, <3>1, <3>2, <3>3, SlotKeeps
    <3> QED
      BY <2>2, <3>2, <3>4 DEF CallInv, BreakerInv
  <2>5. CASE ~(Repeats(calls[c].kind.t, reply) /\ calls[c].sent < AttemptsAllowed(calls[c].kind))
    <3>1. PICK bodies : /\ End(c, reply, bodies)
                        /\ bodies = calls[c].bodies +
                             IF calls[c].kind.t = "http" /\ reply # "error" THEN 1 ELSE 0
      BY <2>1, <2>5
    <3>2. bodies = IF calls[c].kind.t = "http" /\ reply \in {"ok", "busy"} THEN 1 ELSE 0
      BY <2>3, <3>1
    <3> QED
      BY <2>2, <2>3, <3>1, <3>2, EndKeeps
  <2> QED
    BY <2>4, <2>5
<1>4. CASE Resume(c)
  <2>1. InProgress(c) /\ calls[c].pc = "backoff" /\ UNCHANGED <<breaker, up, asks>>
    BY <1>4 DEF Resume, InProgress
  <2>2. calls[c] \in Active /\ WithinPolicy(calls[c]) /\ AttemptsAllowed(calls[c].kind) \in 1..MaxAttempts
    BY <2>1, InLoop, PolicyBounds DEF CallInv
  <2>3. calls[c].sent + 1 \in 1..MaxAttempts /\ calls[c].sent + 1 <= AttemptsAllowed(calls[c].kind)
    BY <1>b, <2>1, <2>2 DEF WithinPolicy, Active
  <2> DEFINE x == [calls[c] EXCEPT !.pc = "wait", !.sent = @ + 1]
  <2>4. x \in Active /\ x.pc = "wait" /\ x.sent = calls[c].sent + 1 /\ x.kind = calls[c].kind
    BY <2>2, <2>3 DEF Active
  <2>5. calls' = [calls EXCEPT ![c] = x]
    BY <1>4 DEF Resume
  <2> HIDE DEF x
  <2>6. WithinPolicy(x)
    BY <2>3, <2>4 DEF WithinPolicy
  <2>7. CallsInv'
    BY <1>0, <2>4, <2>5, <2>6, SlotKeeps
  <2> QED
    BY <2>1, <2>7 DEF CallInv, BreakerInv
<1>5. CASE GiveUp(c) \/ Cancel(c)
  <2>1. InProgress(c) /\ UNCHANGED <<up, asks>>
    BY <1>5 DEF GiveUp, Cancel, InProgress
  <2>2. calls[c].bodies = 0
    BY <2>1, InLoop DEF CallInv
  <2>3. PICK end \in {"cancelled", "expired"} : End(c, end, 0)
    BY <1>5, <2>2 DEF GiveUp, Cancel
  <2> QED
    BY <2>1, <2>3, EndKeeps
<1>6. ASSUME NEW kind \in Kinds, Malformed(c, kind) PROVE CallInv'
  <2>1. kind.t \in Transports
    BY OutboundAssumption
  <2>2. Return(c, kind.t, TRUE, "error", 0) /\ UNCHANGED <<up, asks>>
    BY <1>6 DEF Malformed
  <2> QED
    BY <2>1, <2>2, ReturnKeeps
<1> QED
  BY <1>1, <1>2, <1>3, <1>4, <1>5, <1>6

\* The end of OpenTimeout keeps the invariant.
LEMMA RetestKeepsInv ==
  ASSUME CallInv, NEW t \in Transports, Retest(t)
  PROVE  CallInv'
<1>1. HalfOpen \in Breakers /\ ~HalfOpen.trial
  BY OutboundAssumption DEF HalfOpen, Breakers
<1>2. BreakerInv'
  BY <1>1 DEF Retest, CallInv, BreakerInv
<1>3. CallsInv'
  <2>1. calls' = Outdate(t)
    BY DEF Retest
  <2>2. /\ calls' \in [Calls -> {NoCall} \cup Active \cup Finished]
        /\ \A d \in Calls : /\ calls'[d].pc = calls[d].pc
                            /\ InProgress(d) => /\ calls'[d].kind = calls[d].kind
                                                /\ calls'[d].sent = calls[d].sent
    BY <2>1, OutdateKeeps DEF CallInv
  <2> QED
    BY <2>2
    DEF CallInv, CallsInv, InProgress, WithinPolicy, AttemptsAllowed, RetryableMethod, RetryGRPCMethod
<1> QED
  BY <1>2, <1>3 DEF CallInv, Retest

-----------------------------------------------------------------------------
(* Theorems *)

\* The inductive invariant holds in every reachable state.
THEOREM CallInvariant == Spec => []CallInv
<1>1. CallInv /\ [Next]_vars => CallInv'
  <2> SUFFICES ASSUME CallInv, [Next]_vars PROVE CallInv'
    OBVIOUS
  <2>1. CASE UNCHANGED vars \/ Outage
    BY <2>1
    DEF vars, Outage, CallInv, CallsInv, BreakerInv, InProgress, WithinPolicy, AttemptsAllowed,
        RetryableMethod, RetryGRPCMethod
  <2> QED
    BY <2>1, CallsKeepInv, RetestKeepsInv DEF Next
<1> QED
  BY <1>1, CallInvInit, PTL DEF Spec

\* The breaker trips before its count of failures reaches the threshold, only a
\* half-open breaker has a trial, and no call is sent more than MaxAttempts times.
THEOREM CallTypeCorrect == Spec => []CallTypeOK
<1>1. CallInv => CallTypeOK
  <2> SUFFICES ASSUME CallInv PROVE CallTypeOK
    OBVIOUS
  <2>1. ASSUME NEW c \in Calls
        PROVE  \/ calls[c] = NoCall
               \/ /\ calls[c].pc \in {"wait", "backoff"}
                  /\ calls[c].kind \in Kinds
                  /\ calls[c].sent \in 1..MaxAttempts
                  /\ {calls[c].current} \subseteq BOOLEAN
               \/ \E t \in Transports, result \in Results, bodies \in 0..1 :
                    calls[c] = Over(t, result, bodies)
    <3>1. CASE calls[c] \in Active
      BY <3>1 DEF Active
    <3>2. CASE calls[c] \in Finished
      <4>1. PICK t \in Transports, result \in Results :
              calls[c] = Over(t, result, IF t = "http" /\ result \in {"ok", "busy"} THEN 1 ELSE 0)
        BY <3>2 DEF Finished
      <4>2. (IF t = "http" /\ result \in {"ok", "busy"} THEN 1 ELSE 0) \in 0..1
        OBVIOUS
      <4> QED
        BY <4>1, <4>2 DEF Results
    <3> QED
      BY <3>1, <3>2 DEF CallInv, CallsInv
  <2>2. ASSUME NEW t \in Transports
        PROVE  /\ breaker[t].state \in {"closed", "open", "half_open"}
               /\ breaker[t].failures < Threshold
               /\ breaker[t].trial => breaker[t].state = "half_open"
    <3>1. breaker[t] \in Breakers
      BY DEF CallInv, BreakerInv
    <3>2. breaker[t].failures \in 0..(Threshold - 1) /\ Threshold \in Nat
      BY <3>1, OutboundAssumption DEF Breakers
    <3> QED
      BY <3>1, <3>2 DEF Breakers, CallInv, BreakerInv
  <2> QED
    BY <2>1, <2>2 DEF CallTypeOK, CallInv
<1> QED
  BY <1>1, CallInvariant, PTL

\* Neither client ever repeats a call that is not safe to repeat, whatever answers
\* are lost or late and however often it may try others.
THEOREM UnsafeCallsAreSentOnce == Spec => []UnsafeCallsSentOnce
<1>1. CallInv => UnsafeCallsSentOnce
  <2> SUFFICES ASSUME CallInv, NEW c \in Calls, InProgress(c),
                      ~calls[c].kind.repeatable, ~calls[c].kind.key
               PROVE  calls[c].sent <= 1
    BY DEF UnsafeCallsSentOnce
  <2>1. WithinPolicy(calls[c])
    BY InLoop DEF CallInv
  <2>2. AttemptsAllowed(calls[c].kind) = 1
    BY DEF AttemptsAllowed, RetryableMethod, RetryGRPCMethod
  <2> QED
    BY <2>1, <2>2 DEF WithinPolicy
<1> QED
  BY <1>1, CallInvariant, PTL

\* No response body is lost: the loop closes every body it does not return, and the
\* caller gets a response for the one that is open.
THEOREM BodiesAreClosed == Spec => []NoBodyLost
<1>1. CallInv => NoBodyLost
  <2> SUFFICES ASSUME CallInv, NEW c \in Calls, calls[c].pc = "done"
               PROVE  calls[c].bodies = IF calls[c].t = "http" /\ calls[c].result \in {"ok", "busy"}
                                        THEN 1 ELSE 0
    BY DEF NoBodyLost
  <2>1. calls[c] \in Finished
    BY SlotShapes DEF CallInv, CallsInv
  <2> QED
    BY <2>1 DEF Finished, Over
<1> QED
  BY <1>1, CallInvariant, PTL

=============================================================================
