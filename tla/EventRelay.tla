----------------------------- MODULE EventRelay -----------------------------
(***************************************************************************)
(* The way of an event from the outbox to the stream: the two loops of     *)
(* fileEventRuntime on every replica.  The dispatch loop claims a batch of *)
(* rows for a lease, publishes each event and marks its row; the retention *)
(* loop deletes rows that were published long enough ago.  A RunOnce of    *)
(* either loop is the platform library's, the stream is NATS JetStream's.  *)
(* Time goes by in ticks; a timer holds the ticks that are left.           *)
(***************************************************************************)
EXTENDS Naturals, FiniteSets

CONSTANTS
  Events,        \* events the file service commits
  Replicas,      \* processes
  BatchSize,     \* cfg.EventBus.DispatchBatchSize
  Lease,         \* cfg.EventBus.DispatchLease
  RetryDelay,    \* cfg.EventBus.DispatchRetryDelay
  Retention,     \* cfg.EventBus.PublishedRetention
  CleanupBatch   \* cfg.EventBus.CleanupBatchSize

\* Validate wants all of them positive.
ASSUME RelayAssumption ==
  /\ IsFiniteSet(Events)
  /\ {BatchSize, Lease, RetryDelay, Retention, CleanupBatch} \subseteq Nat \ {0}

VARIABLES
  rows,    \* file_outbox_events: state and timer of each event's row
  stream,  \* events that have been in the stream
  relay,   \* the runtime of each replica
  up       \* does the bus take messages?

vars == <<rows, stream, relay, up>>

-----------------------------------------------------------------------------
\* available_at of a pending row and published_at of a published one are timers.
Row(state, timer) == [state |-> state, timer |-> timer]

Longest == CHOOSE n \in {Lease, RetryDelay, Retention} :
             \A m \in {Lease, RetryDelay, Retention} : m <= n

\* bus: the connection; cancelled: runCtx; batch: claimed, not yet published;
\* acked: published, not yet marked; running: the loops.
Off == [bus |-> "closed", cancelled |-> FALSE, running |-> FALSE, batch |-> {}, acked |-> {}]

Running == [Off EXCEPT !.bus = "open", !.running = TRUE]

\* The shape of the state; no replica holds more than a batch, and a row is
\* waited for no longer than its lease.
RelayTypeOK ==
  /\ \A e \in Events :
       /\ rows[e].state \in {"none", "pending", "published", "deleted"}
       /\ rows[e].timer \in 0..Longest
       /\ rows[e].state = "pending" => \E n \in {Lease, RetryDelay} : rows[e].timer <= n
  /\ stream \subseteq Events
  /\ \A p \in Replicas :
       /\ relay[p].bus \in {"open", "closed"}
       /\ {relay[p].cancelled, relay[p].running} \subseteq BOOLEAN
       /\ relay[p].batch \cup relay[p].acked \subseteq Events
       /\ Cardinality(relay[p].batch \cup relay[p].acked) <= BatchSize
  /\ up \in BOOLEAN

Init ==
  /\ rows = [e \in Events |-> Row("none", 0)]
  /\ stream = {}
  /\ relay = [p \in Replicas |-> Off]
  /\ up = TRUE

-----------------------------------------------------------------------------
(* Runtime *)

\* The bus is connected and both loops run.  A constructor that fails closes the
\* bus again, and the replica is as it was.
start(p) ==
  /\ relay[p].bus = "closed"
  /\ up
  /\ relay' = [relay EXCEPT ![p] = Running]
  /\ UNCHANGED <<rows, stream, up>>

\* stop cancels the context of both loops ...
cancel(p) ==
  /\ relay[p].running
  /\ ~relay[p].cancelled
  /\ relay' = [relay EXCEPT ![p].cancelled = TRUE]
  /\ UNCHANGED <<rows, stream, up>>

\* ... which leave at their select, between two calls of RunOnce.  A RunOnce that
\* is under way may return early: the rows it had claimed stay leased.
LoopsEnd(p) ==
  /\ relay[p].running
  /\ relay[p].cancelled
  /\ relay' = [relay EXCEPT ![p].running = FALSE, ![p].batch = {}, ![p].acked = {}]
  /\ UNCHANGED <<rows, stream, up>>

\* ... waits for them, and closes the bus.
stop(p) ==
  /\ relay[p].bus = "open"
  /\ ~relay[p].running
  /\ relay' = [relay EXCEPT ![p].bus = "closed"]
  /\ UNCHANGED <<rows, stream, up>>

Crash(p) ==
  /\ relay[p].bus = "open"
  /\ relay' = [relay EXCEPT ![p] = Off]
  /\ UNCHANGED <<rows, stream, up>>

-----------------------------------------------------------------------------
(* RunOnce of the dispatcher *)

Available == {e \in Events : rows[e] = Row("pending", 0)}

\* Fault: rows are claimed for the wrong duration.
Claim_Retention(p) ==
  /\ relay[p].running
  /\ relay[p].batch \cup relay[p].acked = {}
  /\ \E batch \in SUBSET Available \ {{}} :
       /\ Cardinality(batch) <= BatchSize
       /\ rows' = [e \in Events |-> IF e \in batch THEN Row("pending", Retention) ELSE rows[e]]
       /\ relay' = [relay EXCEPT ![p].batch = batch]
  /\ UNCHANGED <<stream, up>>

\* Fault: only a full batch is claimed.
Claim_Full(p) ==
  /\ relay[p].running
  /\ relay[p].batch \cup relay[p].acked = {}
  /\ \E batch \in SUBSET Available \ {{}} :
       /\ Cardinality(batch) = BatchSize
       /\ rows' = [e \in Events |-> IF e \in batch THEN Row("pending", Lease) ELSE rows[e]]
       /\ relay' = [relay EXCEPT ![p].batch = batch]
  /\ UNCHANGED <<stream, up>>

\* A batch of the available rows is claimed: they are not available again before
\* the lease is over.
Claim(p) ==
  /\ relay[p].running
  /\ relay[p].batch \cup relay[p].acked = {}
  /\ \E batch \in SUBSET Available \ {{}} :
       /\ Cardinality(batch) <= BatchSize
       /\ rows' = [e \in Events |-> IF e \in batch THEN Row("pending", Lease) ELSE rows[e]]
       /\ relay' = [relay EXCEPT ![p].batch = batch]
  /\ UNCHANGED <<stream, up>>

\* The stream takes an event, under its id.
Publish(p, e) ==
  /\ e \in relay[p].batch
  /\ up
  /\ stream' = stream \cup {e}
  /\ relay' = [relay EXCEPT ![p].batch = @ \ {e}, ![p].acked = @ \cup {e}]
  /\ UNCHANGED <<rows, up>>

\* Fault: a row whose event was not taken is marked as well.
PublishFails_Marks(p, e) ==
  /\ e \in relay[p].batch
  /\ relay' = [relay EXCEPT ![p].batch = @ \ {e}, ![p].acked = @ \cup {e}]
  /\ UNCHANGED <<rows, stream, up>>

\* The bus is away or its acknowledgement is lost: the row is tried again after a
\* delay, unless another replica has marked it meanwhile.
PublishFails(p, e) ==
  /\ e \in relay[p].batch
  /\ stream' = stream \/ stream' = stream \cup {e}
  /\ rows' = [rows EXCEPT ![e] = IF @.state = "pending" THEN Row("pending", RetryDelay) ELSE @]
  /\ relay' = [relay EXCEPT ![p].batch = @ \ {e}]
  /\ UNCHANGED up

MarkPublished(p, e) ==
  /\ e \in relay[p].acked
  /\ rows' = [rows EXCEPT ![e] = IF @.state = "pending" THEN Row("published", Retention) ELSE @]
  /\ relay' = [relay EXCEPT ![p].acked = @ \ {e}]
  /\ UNCHANGED <<stream, up>>

-----------------------------------------------------------------------------
(* RunOnce of the retention cleaner *)

\* Rows published longer than Retention ago, a batch at a time.
Clean(p) ==
  /\ relay[p].running
  /\ LET old == {e \in Events : rows[e] = Row("published", 0)} IN
     \E batch \in SUBSET old \ {{}} :
       /\ Cardinality(batch) <= CleanupBatch
       /\ batch # old => Cardinality(batch) = CleanupBatch
       /\ rows' = [e \in Events |-> IF e \in batch THEN Row("deleted", 0) ELSE rows[e]]
  /\ UNCHANGED <<stream, relay, up>>

-----------------------------------------------------------------------------
(* Environment *)

\* The file service commits an event with its change.
InsertOutbox(e) ==
  /\ rows[e].state = "none"
  /\ rows' = [rows EXCEPT ![e] = Row("pending", 0)]
  /\ UNCHANGED <<stream, relay, up>>

Tick ==
  /\ \E e \in Events : rows[e].timer > 0
  /\ rows' = [e \in Events |-> [rows[e] EXCEPT !.timer = IF @ = 0 THEN 0 ELSE @ - 1]]
  /\ UNCHANGED <<stream, relay, up>>

Outage == up' = ~up /\ UNCHANGED <<rows, stream, relay>>

RunOnce(p) ==
  \/ Claim(p)
  \/ \E e \in Events : Publish(p, e) \/ MarkPublished(p, e)

Next ==
  \/ \E p \in Replicas :
       \/ start(p) \/ cancel(p) \/ LoopsEnd(p) \/ stop(p) \/ Crash(p)
       \/ RunOnce(p) \/ \E e \in Events : PublishFails(p, e)
       \/ Clean(p)
  \/ \E e \in Events : InsertOutbox(e)
  \/ Tick \/ Outage

\* Replicas are started again, loops run on their tickers and end when they are
\* cancelled, and time goes by.  Publishing may fail for as long as the bus is away.
Fairness ==
  /\ \A p \in Replicas :
       /\ WF_vars(start(p)) /\ WF_vars(LoopsEnd(p)) /\ WF_vars(stop(p))
       /\ WF_vars(RunOnce(p)) /\ WF_vars(Clean(p))
  /\ WF_vars(Tick)

Spec == Init /\ [][Next]_vars /\ Fairness

-----------------------------------------------------------------------------
(* Properties *)

\* A row is marked as published, and deleted, only when its event has been in the
\* stream: whichever replica claims, crashes between publishing and marking, or
\* comes too late.
NoEventDropped ==
  \A e \in Events : rows[e].state \in {"published", "deleted"} => e \in stream

\* The bus and the replicas are up.
Calm == up /\ \A p \in Replicas : relay[p].running /\ ~relay[p].cancelled

\* Once crashes, stops, outages and lost acknowledgements have ended, every event
\* that was committed is published and its row deleted: no claim outlives the
\* replica that made it, and no row is forgotten by both loops.
OutboxDrains ==
  <>[]Calm /\ <>[][\A p \in Replicas, e \in Events : ~PublishFails(p, e)]_vars =>
    \A e \in Events : rows[e].state = "pending" ~> rows[e].state = "deleted"

=============================================================================
