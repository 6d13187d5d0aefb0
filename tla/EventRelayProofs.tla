-------------------------- MODULE EventRelayProofs --------------------------
(* Proofs about EventRelay, for any finite set of events, any number of      *)
(* replicas and any batch sizes, leases and delays.                          *)
EXTENDS EventRelay, FiniteSetTheorems, TLAPS

RowStates == [state : {"none", "pending", "published", "deleted"}, timer : 0..Longest]

Runtimes == [bus : {"open", "closed"}, cancelled : BOOLEAN, running : BOOLEAN,
             batch : SUBSET Events, acked : SUBSET Events]

\* The type invariant with the records spelt out.
Shape ==
  /\ rows \in [Events -> RowStates]
  /\ \A e \in Events : rows[e].state = "pending" => rows[e].timer <= Lease \/ rows[e].timer <= RetryDelay
  /\ stream \subseteq Events
  /\ relay \in [Replicas -> Runtimes]
  /\ \A p \in Replicas : Cardinality(relay[p].batch \cup relay[p].acked) <= BatchSize
  /\ up \in BOOLEAN

\* What a replica is about to mark has been taken by the stream.
AckedIsInStream == \A p \in Replicas : relay[p].acked \subseteq stream

\* The inductive invariant: a row is marked by a replica that remembers an
\* acknowledgement, and no crash turns a claim into one.
RelayInv == Shape /\ AckedIsInStream /\ NoEventDropped

-----------------------------------------------------------------------------
(* Constants and building blocks *)

\* The longest of the three durations bounds the others.
LEMMA LongestBounds ==
  /\ Longest \in Nat
  /\ Lease \in 0..Longest /\ RetryDelay \in 0..Longest /\ Retention \in 0..Longest
<1>1. {Lease, RetryDelay, Retention} \subseteq Nat
  BY RelayAssumption
<1>2. \E n \in {Lease, RetryDelay, Retention} : \A m \in {Lease, RetryDelay, Retention} : m <= n
  BY <1>1
<1>3. /\ Longest \in {Lease, RetryDelay, Retention}
      /\ \A m \in {Lease, RetryDelay, Retention} : m <= Longest
  BY <1>2 DEF Longest
<1> QED
  BY <1>1, <1>3

\* A row that is claimed, delayed, marked, deleted or inserted is a row.
LEMMA RowsAreTyped ==
  /\ \A s \in {"none", "pending", "published", "deleted"}, n \in 0..Longest :
       /\ Row(s, n) \in RowStates
       /\ Row(s, n).state = s /\ Row(s, n).timer = n
  /\ 0 \in 0..Longest
BY LongestBounds DEF Row, RowStates

\* A replica that is off, and one that has just been started, hold nothing.
LEMMA RuntimesAreTyped ==
  /\ Off \in Runtimes /\ Off.batch = {} /\ Off.acked = {}
  /\ Running \in Runtimes /\ Running.batch = {} /\ Running.acked = {}
BY DEF Off, Running, Runtimes

\* The empty set fits into a batch, and so does what is left of one.
LEMMA BatchesFit ==
  /\ BatchSize \in Nat
  /\ Cardinality({}) <= BatchSize
  /\ \A S, T \in SUBSET Events :
       S \subseteq T /\ Cardinality(T) <= BatchSize => Cardinality(S) <= BatchSize
<1>1. BatchSize \in Nat /\ Cardinality({}) = 0
  BY RelayAssumption, FS_EmptySet
<1>2. ASSUME NEW S \in SUBSET Events, NEW T \in SUBSET Events, S \subseteq T,
             Cardinality(T) <= BatchSize
      PROVE  Cardinality(S) <= BatchSize
  <2>1. IsFiniteSet(T)
    BY RelayAssumption, FS_Subset
  <2>2. /\ Cardinality(S) <= Cardinality(T)
        /\ Cardinality(S) \in Nat /\ Cardinality(T) \in Nat
    BY <1>2, <2>1, FS_Subset, FS_CardinalityType
  <2> QED
    BY <1>1, <1>2, <2>2
<1> QED
  BY <1>1, <1>2

-----------------------------------------------------------------------------
\* No row, no message and no replica running: the invariant holds.
LEMMA RelayInvInit == Init => RelayInv
<1> SUFFICES ASSUME Init PROVE RelayInv
  OBVIOUS
<1>1. Shape
  BY RowsAreTyped, RuntimesAreTyped, BatchesFit DEF Init, Shape
<1>2. AckedIsInStream
  BY RuntimesAreTyped DEF Init, AckedIsInStream
<1>3. NoEventDropped
  BY DEF Init, NoEventDropped, Row
<1> QED
  BY <1>1, <1>2, <1>3 DEF RelayInv

\* A step of one replica's runtime that leaves rows and stream alone keeps the
\* invariant if what it holds afterwards fits.
LEMMA RuntimeKeeps ==
  ASSUME RelayInv, NEW p \in Replicas, NEW s \in Runtimes,
         relay' = [relay EXCEPT ![p] = s], UNCHANGED <<rows, stream, up>>,
         s.acked \subseteq relay[p].acked,
         s.batch \subseteq relay[p].batch
  PROVE  RelayInv'
<1> USE DEF RelayInv
<1>1. \A q \in Replicas : relay'[q] = IF q = p THEN s ELSE relay[q]
  BY DEF Shape
<1>2. Cardinality(s.batch \cup s.acked) <= BatchSize
  <2>1. relay[p].batch \cup relay[p].acked \in SUBSET Events /\ s.batch \cup s.acked \in SUBSET Events
    BY DEF Shape, Runtimes
  <2> QED
    BY <2>1, BatchesFit DEF Shape
<1>3. Shape'
  BY <1>1, <1>2 DEF Shape
<1>4. AckedIsInStream'
  BY <1>1 DEF AckedIsInStream
<1>5. NoEventDropped'
  BY DEF NoEventDropped
<1> QED
  BY <1>3, <1>4, <1>5

\* Start, stop and crash of a replica, and the end of its loops.
LEMMA LifeKeepsRelayInv ==
  ASSUME RelayInv, NEW p \in Replicas,
         start(p) \/ cancel(p) \/ LoopsEnd(p) \/ stop(p) \/ Crash(p)
  PROVE  RelayInv'
<1>0. relay[p] \in Runtimes /\ relay \in [Replicas -> Runtimes]
  BY DEF RelayInv, Shape
<1>1. CASE start(p)
  BY <1>1, RuntimeKeeps, RuntimesAreTyped DEF start
<1>2. CASE Crash(p)
  BY <1>2, RuntimeKeeps, RuntimesAreTyped DEF Crash
<1>3. CASE cancel(p)
  <2> DEFINE s == [relay[p] EXCEPT !.cancelled = TRUE]
  <2>1. s \in Runtimes /\ s.acked = relay[p].acked /\ s.batch = relay[p].batch
    BY <1>0 DEF Runtimes
  <2>2. relay' = [relay EXCEPT ![p] = s] /\ UNCHANGED <<rows, stream, up>>
    BY <1>3 DEF cancel
  <2> HIDE DEF s
  <2> QED
    BY <2>1, <2>2, RuntimeKeeps
<1>4. CASE LoopsEnd(p)
  <2> DEFINE s == [relay[p] EXCEPT !.running = FALSE, !.batch = {}, !.acked = {}]
  <2>1. s \in Runtimes /\ s.acked = {} /\ s.batch = {}
    BY <1>0 DEF Runtimes
  <2>2. relay' = [relay EXCEPT ![p] = s] /\ UNCHANGED <<rows, stream, up>>
    BY <1>4 DEF LoopsEnd
  <2> HIDE DEF s
  <2> QED
    BY <2>1, <2>2, RuntimeKeeps
<1>5. CASE stop(p)
  <2> DEFINE s == [relay[p] EXCEPT !.bus = "closed"]
  <2>1. s \in Runtimes /\ s.acked = relay[p].acked /\ s.batch = relay[p].batch
    BY <1>0 DEF Runtimes
  <2>2. relay' = [relay EXCEPT ![p] = s] /\ UNCHANGED <<rows, stream, up>>
    BY <1>5 DEF stop
  <2> HIDE DEF s
  <2> QED
    BY <2>1, <2>2, RuntimeKeeps
<1> QED
  BY <1>1, <1>2, <1>3, <1>4, <1>5

-----------------------------------------------------------------------------
(* Dispatcher and retention cleaner *)

\* A step of one replica's RunOnce that changes the row of one event: it keeps
\* the invariant if the new row is one the stream allows.
LEMMA MarkKeeps ==
  ASSUME RelayInv, NEW p \in Replicas, NEW e \in Events, NEW s \in Runtimes, NEW w \in RowStates,
         rows' = [rows EXCEPT ![e] = w],
         relay' = [relay EXCEPT ![p] = s],
         stream \subseteq stream', stream' \subseteq Events, UNCHANGED up,
         w.state = "pending" => w.timer <= Lease \/ w.timer <= RetryDelay,
         w.state \in {"published", "deleted"} => e \in stream',
         s.acked \subseteq stream',
         s.batch \cup s.acked \subseteq relay[p].batch \cup relay[p].acked
  PROVE  RelayInv'
<1> USE DEF RelayInv
<1>1. \A q \in Replicas : relay'[q] = IF q = p THEN s ELSE relay[q]
  BY DEF Shape
<1>2. \A f \in Events : rows'[f] = IF f = e THEN w ELSE rows[f]
  BY DEF Shape
<1>3. Cardinality(s.batch \cup s.acked) <= BatchSize
  <2>1. relay[p].batch \cup relay[p].acked \in SUBSET Events /\ s.batch \cup s.acked \in SUBSET Events
    BY DEF Shape, Runtimes
  <2> QED
    BY <2>1, BatchesFit DEF Shape
<1>4. Shape'
  BY <1>1, <1>2, <1>3 DEF Shape
<1>5. AckedIsInStream'
  BY <1>1 DEF AckedIsInStream
<1>6. NoEventDropped'
  BY <1>2 DEF NoEventDropped
<1> QED
  BY <1>4, <1>5, <1>6

\* Claiming, publishing, failing to publish and marking keep the invariant.
LEMMA RunOnceKeepsRelayInv ==
  ASSUME RelayInv, NEW p \in Replicas,
         RunOnce(p) \/ \E e \in Events : PublishFails(p, e)
  PROVE  RelayInv'
<1> USE DEF RelayInv
<1>0. /\ relay[p] \in Runtimes /\ relay \in [Replicas -> Runtimes]
      /\ rows \in [Events -> RowStates]
      /\ relay[p].acked \subseteq stream /\ stream \subseteq Events
  BY DEF Shape, AckedIsInStream
<1>1. CASE Claim(p)
  <2>1. PICK batch \in SUBSET Available \ {{}} :
          /\ Cardinality(batch) <= BatchSize
          /\ rows' = [e \in Events |-> IF e \in batch THEN Row("pending", Lease) ELSE rows[e]]
          /\ relay' = [relay EXCEPT ![p].batch = batch]
    BY <1>1 DEF Claim
  <2>2. /\ relay[p].running /\ relay[p].batch \cup relay[p].acked = {}
        /\ UNCHANGED <<stream, up>>
    BY <1>1 DEF Claim
  <2> DEFINE s == [relay[p] EXCEPT !.batch = batch]
  <2>3. /\ s \in Runtimes /\ s.batch = batch /\ s.acked = {}
    BY <1>0, <2>1, <2>2 DEF Runtimes, Available
  <2>4. relay' = [relay EXCEPT ![p] = s]
    BY <2>1
  <2> HIDE DEF s
  <2>5. \A q \in Replicas : relay'[q] = IF q = p THEN s ELSE relay[q]
    BY <1>0, <2>4
  <2>6. \A e \in Events : rows'[e] = IF e \in batch THEN Row("pending", Lease) ELSE rows[e]
    BY <2>1
  <2>7. Row("pending", Lease) \in RowStates
    BY LongestBounds, RowsAreTyped
  <2>8. Row("pending", Lease).timer = Lease /\ Row("pending", Lease).state = "pending"
    BY DEF Row
  <2>a. rows' \in [Events -> RowStates]
    BY <1>0, <2>1, <2>7
  <2>b. \A e \in Events : rows'[e].state = "pending" => rows'[e].timer <= Lease \/ rows'[e].timer <= RetryDelay
    BY <2>6, <2>8, LongestBounds DEF Shape
  <2>c. s.batch \cup s.acked = batch
    BY <2>3
  <2>9. Shape'
    BY <2>1, <2>2, <2>3, <2>4, <2>5, <2>a, <2>b, <2>c DEF Shape
  <2>10. AckedIsInStream'
    BY <2>2, <2>3, <2>5 DEF AckedIsInStream
  <2>11. NoEventDropped'
    BY <2>2, <2>6, <2>8 DEF NoEventDropped
  <2> QED
    BY <2>9, <2>10, <2>11
<1>2. ASSUME NEW e \in Events, Publish(p, e) PROVE RelayInv'
  <2> DEFINE s == [relay[p] EXCEPT !.batch = @ \ {e}, !.acked = @ \cup {e}]
  <2>1. /\ s \in Runtimes /\ s.batch = relay[p].batch \ {e} /\ s.acked = relay[p].acked \cup {e}
    BY <1>0 DEF Runtimes
  <2>2. /\ relay' = [relay EXCEPT ![p] = s] /\ e \in relay[p].batch
        /\ stream' = stream \cup {e} /\ UNCHANGED <<rows, up>>
    BY <1>2 DEF Publish
  <2> HIDE DEF s
  <2>3. \A q \in Replicas : relay'[q] = IF q = p THEN s ELSE relay[q]
    BY <1>0, <2>2
  <2>a. s.batch \cup s.acked = relay[p].batch \cup relay[p].acked
    BY <2>1, <2>2
  <2>4. Shape'
    BY <2>1, <2>2, <2>3, <2>a DEF Shape
  <2>5. AckedIsInStream' /\ NoEventDropped'
    BY <1>0, <2>1, <2>2, <2>3, <2>a DEF AckedIsInStream, NoEventDropped
  <2> QED
    BY <2>4, <2>5
<1>3. ASSUME NEW e \in Events, PublishFails(p, e) PROVE RelayInv'
  <2> DEFINE s == [relay[p] EXCEPT !.batch = @ \ {e}]
             w == IF rows[e].state = "pending" THEN Row("pending", RetryDelay) ELSE rows[e]
  <2>1. /\ s \in Runtimes /\ s.batch = relay[p].batch \ {e} /\ s.acked = relay[p].acked
    BY <1>0 DEF Runtimes
  <2>2. /\ relay' = [relay EXCEPT ![p] = s] /\ rows' = [rows EXCEPT ![e] = w]
        /\ stream \subseteq stream' /\ stream' \subseteq Events /\ UNCHANGED up
    BY <1>0, <1>3 DEF PublishFails
  <2>3. /\ w \in RowStates
        /\ w.state = "pending" => w.timer <= Lease \/ w.timer <= RetryDelay
        /\ w.state \in {"published", "deleted"} => e \in stream'
    BY <1>0, <2>2, RowsAreTyped, LongestBounds DEF Shape, NoEventDropped
  <2> HIDE DEF s, w
  <2> QED
    BY <1>0, <2>1, <2>2, <2>3, MarkKeeps
<1>4. ASSUME NEW e \in Events, MarkPublished(p, e) PROVE RelayInv'
  <2> DEFINE s == [relay[p] EXCEPT !.acked = @ \ {e}]
             w == IF rows[e].state = "pending" THEN Row("published", Retention) ELSE rows[e]
  <2>1. /\ s \in Runtimes /\ s.batch = relay[p].batch /\ s.acked = relay[p].acked \ {e}
    BY <1>0 DEF Runtimes
  <2>2. /\ relay' = [relay EXCEPT ![p] = s] /\ rows' = [rows EXCEPT ![e] = w]
        /\ stream' = stream /\ UNCHANGED up /\ e \in relay[p].acked
    BY <1>4 DEF MarkPublished
  <2>3. /\ w \in RowStates
        /\ w.state = "pending" => w.timer <= Lease \/ w.timer <= RetryDelay
        /\ w.state \in {"published", "deleted"} => e \in stream'
    BY <1>0, <2>2, RowsAreTyped, LongestBounds DEF Shape
  <2> HIDE DEF s, w
  <2> QED
    BY <1>0, <2>1, <2>2, <2>3, MarkKeeps
<1> QED
  BY <1>1, <1>2, <1>3, <1>4 DEF RunOnce

\* Deletion by age, new events and time keep the invariant.
LEMMA RowsKeepRelayInv ==
  ASSUME RelayInv,
         \/ \E p \in Replicas : Clean(p)
         \/ \E e \in Events : InsertOutbox(e)
         \/ Tick
  PROVE  RelayInv'
<1> USE DEF RelayInv
<1>0. rows \in [Events -> RowStates] /\ UNCHANGED <<stream, relay, up>>
  BY DEF Shape, Clean, InsertOutbox, Tick
<1>r. ASSUME rows' \in [Events -> RowStates],
             \A e \in Events :
               /\ rows'[e].state = "pending" =>
                    \/ rows'[e].timer = 0
                    \/ rows[e].state = "pending" /\ rows'[e].timer <= rows[e].timer
               /\ rows'[e].state \in {"published", "deleted"} =>
                    rows[e].state \in {"published", "deleted"}
      PROVE  RelayInv'
  <2>1. Lease \in Nat /\ RetryDelay \in Nat /\ Longest \in Nat
    BY LongestBounds
  <2>2. ASSUME NEW e \in Events, rows'[e].state = "pending"
        PROVE  rows'[e].timer <= Lease \/ rows'[e].timer <= RetryDelay
    <3>1. rows'[e].timer \in Nat /\ rows[e].timer \in Nat
      BY <1>0, <1>r, <2>1 DEF RowStates
    <3> QED
      BY <1>r, <2>1, <2>2, <3>1 DEF Shape
  <2>3. Shape'
    BY <1>0, <1>r, <2>2 DEF Shape
  <2>4. AckedIsInStream' /\ NoEventDropped'
    BY <1>0, <1>r DEF AckedIsInStream, NoEventDropped
  <2> QED
    BY <2>3, <2>4
<1>1. ASSUME NEW p \in Replicas, Clean(p) PROVE RelayInv'
  <2>1. PICK batch : /\ batch \subseteq {e \in Events : rows[e] = Row("published", 0)}
                     /\ rows' = [e \in Events |-> IF e \in batch THEN Row("deleted", 0) ELSE rows[e]]
    BY <1>1 DEF Clean
  <2>2. Row("deleted", 0) \in RowStates /\ Row("published", 0).state = "published"
        /\ Row("deleted", 0).state = "deleted"
    BY RowsAreTyped
  <2>3. rows' \in [Events -> RowStates]
    BY <1>0, <2>1, <2>2
  <2>4. \A e \in Events : rows'[e] = IF e \in batch THEN Row("deleted", 0) ELSE rows[e]
    BY <2>1
  <2>5. \A e \in Events : rows[e].timer \in Nat
    BY <1>0, LongestBounds DEF RowStates
  <2> QED
    BY <1>r, <2>1, <2>2, <2>3, <2>4, <2>5
<1>2. ASSUME NEW e \in Events, InsertOutbox(e) PROVE RelayInv'
  <2>1. /\ Row("pending", 0) \in RowStates
        /\ Row("pending", 0).state = "pending" /\ Row("pending", 0).timer = 0
    BY RowsAreTyped
  <2>2. \A f \in Events : rows'[f] = IF f = e THEN Row("pending", 0) ELSE rows[f]
    BY <1>0, <1>2 DEF InsertOutbox
  <2>3. rows' \in [Events -> RowStates]
    BY <1>0, <1>2, <2>1 DEF InsertOutbox
  <2>4. \A f \in Events : rows[f].timer \in Nat
    BY <1>0, LongestBounds DEF RowStates
  <2> QED
    BY <1>r, <2>1, <2>2, <2>3, <2>4
<1>3. CASE Tick
  <2>1. \A e \in Events : rows[e] \in RowStates /\ rows[e].timer \in Nat
    BY <1>0, LongestBounds DEF RowStates
  <2>2. \A e \in Events :
          /\ rows'[e] = [rows[e] EXCEPT !.timer = IF @ = 0 THEN 0 ELSE @ - 1]
          /\ rows'[e] \in RowStates
          /\ rows'[e].state = rows[e].state /\ rows'[e].timer <= rows[e].timer
    <3> TAKE e \in Events
    <3>1. PICK w, n : w = rows[e] /\ n = IF w.timer = 0 THEN 0 ELSE w.timer - 1
      OBVIOUS
    <3>2. /\ rows'[e] = [w EXCEPT !.timer = n]
          /\ rows'[e] = [rows[e] EXCEPT !.timer = IF @ = 0 THEN 0 ELSE @ - 1]
      BY <1>3, <3>1 DEF Tick
    <3>3. w \in RowStates /\ w.timer \in 0..Longest /\ Longest \in Nat
      BY <2>1, <3>1, LongestBounds DEF RowStates
    <3>4. n \in 0..Longest /\ n <= w.timer
      BY <3>1, <3>3
    <3> QED
      BY <3>1, <3>2, <3>3, <3>4 DEF RowStates
  <2>3. rows' \in [Events -> RowStates]
    BY <1>3, <2>2 DEF Tick
  <2>4. \A e \in Events :
          /\ rows'[e].state = "pending" =>
               rows[e].state = "pending" /\ rows'[e].timer <= rows[e].timer
          /\ rows'[e].state \in {"published", "deleted"} =>
               rows[e].state \in {"published", "deleted"}
    BY <2>2
  <2> HIDE DEF RelayInv
  <2> QED
    BY <1>r, <2>3, <2>4
<1> QED
  BY <1>1, <1>2, <1>3

-----------------------------------------------------------------------------
(* Theorems *)

\* The inductive invariant holds in every reachable state.
THEOREM RelayInvariant == Spec => []RelayInv
<1>1. RelayInv /\ [Next]_vars => RelayInv'
  <2> SUFFICES ASSUME RelayInv, [Next]_vars PROVE RelayInv'
    OBVIOUS
  <2>1. CASE UNCHANGED vars
    BY <2>1 DEF vars, RelayInv, Shape, AckedIsInStream, NoEventDropped
  <2>2. CASE Outage
    BY <2>2 DEF Outage, RelayInv, Shape, AckedIsInStream, NoEventDropped
  <2> QED
    BY <2>1, <2>2, LifeKeepsRelayInv, RunOnceKeepsRelayInv, RowsKeepRelayInv DEF Next
<1> QED
  BY <1>1, RelayInvInit, PTL DEF Spec

\* A claim never exceeds a batch and no row waits longer than its lease or retry
\* delay, for every configuration that Validate accepts.
THEOREM RelayTypeCorrect == Spec => []RelayTypeOK
<1>1. RelayInv => RelayTypeOK
  <2> SUFFICES ASSUME RelayInv PROVE RelayTypeOK
    OBVIOUS
  <2>1. \A e \in Events : rows[e] \in RowStates
    BY DEF RelayInv, Shape
  <2>2. \A p \in Replicas : relay[p] \in Runtimes
    BY DEF RelayInv, Shape
  <2> QED
    BY <2>1, <2>2 DEF RelayInv, Shape, RelayTypeOK, RowStates, Runtimes
<1> QED
  BY <1>1, RelayInvariant, PTL

\* At-least-once delivery: whatever replicas claim, lose, crash over or mark late,
\* a row is marked or deleted only when its event has been in the stream.
THEOREM EventsAreDelivered == Spec => []NoEventDropped
BY RelayInvariant, PTL DEF RelayInv

=============================================================================
