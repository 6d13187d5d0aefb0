---------------------------- MODULE CleanupLock ----------------------------
(***************************************************************************)
(* The cron job of internal/scheduler/scheduler.go on several replicas:    *)
(* every firing takes the Redis lock of internal/cache/redis.go under a    *)
(* random token, works until its context times out and releases the lock.  *)
(* The sample job has the same shape with a shorter timeout and TTL.       *)
(*                                                                         *)
(* Time is counted in whole units.  Only what is left of a context and of  *)
(* the TTL of the key matters, so both count down and the state stays      *)
(* finite.  FileService is what a run does while it works.                 *)
(***************************************************************************)
EXTENDS Naturals

CONSTANTS
  Replicas,     \* processes of the service
  Tokens,       \* the random values redsync stores in the key
  NoToken,      \* the key does not exist, or the run has no mutex
  Timeout,      \* context.WithTimeout of a run: 10 minutes
  TTL,          \* expiry of the lock: 11 minutes
  HasLocker,    \* is Redis configured?
  RedisForgets  \* may Redis lose the key before it expires (restart, failover)?

ASSUME LockAssumption ==
  /\ NoToken \notin Tokens
  /\ Timeout \in Nat \ {0} /\ TTL \in Nat /\ Timeout < TTL
  /\ HasLocker \in BOOLEAN
  /\ RedisForgets \in BOOLEAN

VARIABLES
  lock,     \* the key: its value and what is left of its TTL
  late,     \* tokens of unlock commands that are sent and not yet executed
  runs,     \* the run of the job on each replica
  replica   \* "up", "stopping" or "down"

vars == <<lock, late, runs, replica>>

-----------------------------------------------------------------------------
Free == [token |-> NoToken, ttl |-> 0]
NoRun == [pc |-> "idle", token |-> NoToken, left |-> 0]

\* The types of the key, the runs and the replicas.
LockTypeOK ==
  /\ lock \in [token : Tokens \cup {NoToken}, ttl : 0..TTL]
  /\ late \subseteq Tokens
  /\ runs \in [Replicas -> [pc : {"idle", "trying", "working", "unlocking"},
                            token : Tokens \cup {NoToken}, left : 0..Timeout]]
  /\ replica \in [Replicas -> {"up", "stopping", "down"}]

LockInit ==
  /\ lock = Free
  /\ late = {}
  /\ runs = [p \in Replicas |-> NoRun]
  /\ replica = [p \in Replicas |-> "up"]

\* A token nobody else holds or waits to release.
NewToken(t) == /\ t # lock.token /\ t \notin late
               /\ \A q \in Replicas : runs[q].token # t

\* cron fires on a replica that has no run of the job (SkipIfStillRunning).
\* Without Redis the run works at once and takes no lock.
Fire(p) ==
  /\ replica[p] = "up"
  /\ runs[p].pc = "idle"
  /\ runs' = [runs EXCEPT ![p] =
       [pc |-> IF HasLocker THEN "trying" ELSE "working",
        token |-> NoToken, left |-> Timeout]]
  /\ UNCHANGED <<lock, late, replica>>

\* Fault: the timeout of the run and the TTL of its lock are exchanged.
TryLock_ShortTTL(p) ==
  /\ runs[p].pc = "trying" /\ runs[p].left > 0
  /\ lock = Free
  /\ \E t \in Tokens :
       /\ NewToken(t)
       /\ lock' = [token |-> t, ttl |-> Timeout - 1]
       /\ runs' = [runs EXCEPT ![p].pc = "working", ![p].token = t]
  /\ UNCHANGED <<late, replica>>

\* Fault: the lock is taken without the option that sets its expiry, and lives
\* longer than the job asked for.
TryLock_LongTTL(p) ==
  /\ runs[p].pc = "trying" /\ runs[p].left > 0
  /\ lock = Free
  /\ \E t \in Tokens :
       /\ NewToken(t)
       /\ lock' = [token |-> t, ttl |-> TTL + 1]
       /\ runs' = [runs EXCEPT ![p].pc = "working", ![p].token = t]
  /\ UNCHANGED <<late, replica>>

\* SET key token NX PX ttl finds no key.
TryLock(p) ==
  /\ runs[p].pc = "trying" /\ runs[p].left > 0
  /\ lock = Free
  /\ \E t \in Tokens :
       /\ NewToken(t)
       /\ lock' = [token |-> t, ttl |-> TTL]
       /\ runs' = [runs EXCEPT ![p].pc = "working", ![p].token = t]
  /\ UNCHANGED <<late, replica>>

\* The key exists: the run ends without error.
Contended(p) ==
  /\ runs[p].pc = "trying"
  /\ lock # Free
  /\ runs' = [runs EXCEPT ![p] = NoRun]
  /\ UNCHANGED <<lock, late, replica>>

\* Redis does not answer in time: the run ends.  The key may have been set all
\* the same; nobody is left who would release it.
TryLockFails(p) ==
  /\ runs[p].pc = "trying"
  /\ \/ UNCHANGED lock
     \/ /\ lock = Free /\ runs[p].left > 0
        /\ \E t \in Tokens : NewToken(t) /\ lock' = [token |-> t, ttl |-> TTL]
  /\ runs' = [runs EXCEPT ![p] = NoRun]
  /\ UNCHANGED <<late, replica>>

\* CleanupExpiredUploads returns or panics; the deferred unlock follows.
FinishWork(p) ==
  /\ runs[p].pc = "working"
  /\ runs' = [runs EXCEPT ![p] = IF HasLocker THEN [@ EXCEPT !.pc = "unlocking"]
                                              ELSE NoRun]
  /\ UNCHANGED <<lock, late, replica>>

\* Fault: the key is deleted whatever its value.
Release_AnyToken(t) == lock' = Free

\* The unlock script deletes the key only if it holds the token.
Release(t) == lock' = IF lock.token = t THEN Free ELSE lock

Unlock(p) ==
  /\ runs[p].pc = "unlocking"
  /\ Release(runs[p].token)
  /\ runs' = [runs EXCEPT ![p] = NoRun]
  /\ UNCHANGED <<late, replica>>

\* No answer within the 3 seconds of the unlock context: the command is lost or
\* is executed later.
UnlockFails(p) ==
  /\ runs[p].pc = "unlocking"
  /\ \E sent \in {{}, {runs[p].token}} : late' = late \cup sent
  /\ runs' = [runs EXCEPT ![p] = NoRun]
  /\ UNCHANGED <<lock, replica>>

LateUnlock(t) ==
  /\ t \in late
  /\ Release(t)
  /\ late' = late \ {t}
  /\ UNCHANGED <<runs, replica>>

-----------------------------------------------------------------------------
(* The life of a replica. *)

\* OnStop: the runner fires no more.
Stop(p) ==
  /\ replica[p] = "up"
  /\ replica' = [replica EXCEPT ![p] = "stopping"]
  /\ UNCHANGED <<lock, late, runs>>

\* The process ends: its run has returned, the stop context is done, or it
\* crashed.  The key stays.
Exit(p) ==
  /\ replica[p] # "down"
  /\ replica' = [replica EXCEPT ![p] = "down"]
  /\ runs' = [runs EXCEPT ![p] = NoRun]
  /\ UNCHANGED <<lock, late>>

\* Fault: the hook does not start the runner again.
Start_WithoutRunner(p) ==
  /\ replica[p] = "down"
  /\ replica' = [replica EXCEPT ![p] = "stopping"]
  /\ UNCHANGED <<lock, late, runs>>

\* OnStart, with cron.enabled.
Start(p) ==
  /\ replica[p] = "down"
  /\ replica' = [replica EXCEPT ![p] = "up"]
  /\ UNCHANGED <<lock, late, runs>>

-----------------------------------------------------------------------------
(* Time and Redis. *)

Less(n) == IF n = 0 THEN 0 ELSE n - 1

\* Fault: the key is set without an expiry.
Tick_NoExpiry ==
  /\ UNCHANGED lock
  /\ runs' = [p \in Replicas |-> [runs[p] EXCEPT !.left = Less(runs[p].left)]]
  /\ UNCHANGED <<late, replica>>

\* One unit passes; Redis drops the key when its TTL has run out.
Tick ==
  /\ lock' = IF lock.ttl > 1 THEN [lock EXCEPT !.ttl = lock.ttl - 1] ELSE Free
  /\ runs' = [p \in Replicas |-> [runs[p] EXCEPT !.left = Less(runs[p].left)]]
  /\ UNCHANGED <<late, replica>>

Forget ==
  /\ RedisForgets
  /\ lock' = Free
  /\ UNCHANGED <<late, runs, replica>>

-----------------------------------------------------------------------------
RunStep(p) ==
  \/ Fire(p) \/ TryLock(p) \/ Contended(p) \/ TryLockFails(p)
  \/ FinishWork(p) \/ Unlock(p) \/ UnlockFails(p)

LockNext ==
  \/ \E p \in Replicas : RunStep(p) \/ Stop(p) \/ Exit(p) \/ Start(p)
  \/ \E t \in Tokens : LateUnlock(t)
  \/ Tick
  \/ Forget

LockSpec == LockInit /\ [][LockNext]_vars

\* A run of p that can still make calls: its context has not timed out.
Effective(p) == runs[p].pc = "working" /\ runs[p].left > 0

\* With Redis that keeps its keys, the cleanup of two replicas never overlaps:
\* not after a crash, a lost reply to TryLock, nor a late unlock of an earlier
\* run, because a run stops at its timeout, before its lock expires.
OneRunAtATime ==
  HasLocker /\ ~RedisForgets =>
    \A p, q \in Replicas : Effective(p) /\ Effective(q) => p = q

\* The lock belongs to the run for as long as the run can make calls, and longer.
LockOutlivesRun ==
  HasLocker /\ ~RedisForgets =>
    \A p \in Replicas : Effective(p) => /\ lock.token = runs[p].token
                                        /\ lock.ttl > runs[p].left

-----------------------------------------------------------------------------
(* Fairness: time passes, a call of a run returns, with an error if need be, *)
(* a replica that stops exits and is started again, cron keeps firing on     *)
(* replicas that are up again and again, Redis answers one TryLock in the    *)
(* end, and a command that is on its way arrives.                            *)

LockFairness ==
  /\ WF_vars(Tick)
  /\ \A t \in Tokens : WF_vars(LateUnlock(t))
  /\ \A p \in Replicas :
       /\ WF_vars(Contended(p) \/ TryLockFails(p))
       /\ WF_vars(FinishWork(p))
       /\ WF_vars(Unlock(p) \/ UnlockFails(p))
       /\ WF_vars(replica[p] = "stopping" /\ Exit(p))
       /\ WF_vars(Start(p))
       /\ SF_vars(Fire(p))
       /\ SF_vars(TryLock(p))

FairLockSpec == LockSpec /\ LockFairness

\* The key never stays: a holder that crashed, or an unlock that was lost, blocks
\* the job for one TTL at most.
LockIsFreed == []<>(lock = Free)

\* The job is run again and again, whatever crashes, restarts and lost replies.
CleanupKeepsRunning == []<>(\E p \in Replicas : Effective(p))

=============================================================================
