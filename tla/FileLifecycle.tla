--------------------------- MODULE FileLifecycle ---------------------------
(***************************************************************************)
(* What the file component promises to the consumers of its status events: *)
(* every file is a versioned state machine, its transitions are published  *)
(* one event per version and in version order.  No request, session,       *)
(* object or failure appears here; FileService implements this.            *)
(***************************************************************************)
EXTENDS Naturals, Sequences

CONSTANTS FileIds, ScanRequired

VARIABLES
  state,   \* status, scan status and version of every file
  events   \* the events published for it

lifecycle == <<state, events>>

Absent == [status |-> "absent", scan |-> "none", version |-> 0]

LifecycleInit ==
  /\ state = [f \in FileIds |-> Absent]
  /\ events = [f \in FileIds |-> <<>>]

\* The next version of f, and the event that tells of it.
Publish(f, status, scan) ==
  LET e == [status |-> status, scan |-> scan, version |-> state[f].version + 1] IN
  /\ state' = [state EXCEPT ![f] = e]
  /\ events' = [events EXCEPT ![f] = Append(@, e)]

Create(f) ==
  /\ state[f] = Absent
  /\ Publish(f, "pending_upload", "pending")

\* A verified object makes any file ready that is not, one that expired or was
\* deleted included: completing asks for the object and not for the status.
Verify(f) ==
  /\ state[f].status \notin {"absent", "ready"}
  /\ Publish(f, "ready", IF ScanRequired THEN "pending" ELSE "skipped")

Scan(f) ==
  /\ state[f].status = "ready" /\ state[f].scan = "pending"
  /\ \E s \in {"clean", "infected"} : Publish(f, "ready", s)

StartDelete(f) ==
  /\ state[f].status \in {"pending_upload", "ready", "expired"}
  /\ Publish(f, "deleting", state[f].scan)

FinishDelete(f) ==
  /\ state[f].status = "deleting"
  /\ Publish(f, "deleted", state[f].scan)

\* An upload that never completed is aborted by its client or expires.
Abandon(f) ==
  /\ state[f].status = "pending_upload"
  /\ \E s \in {"deleted", "expired"} : Publish(f, s, state[f].scan)

LifecycleStep(f) ==
  Create(f) \/ Verify(f) \/ Scan(f) \/ StartDelete(f) \/ FinishDelete(f) \/ Abandon(f)

LifecycleNext == \E f \in FileIds : LifecycleStep(f)

LifecycleSpec == LifecycleInit /\ [][LifecycleNext]_lifecycle

=============================================================================
