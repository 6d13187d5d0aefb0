------------------------- MODULE CleanupLockProofs -------------------------
(* Proofs about CleanupLock, for any number of replicas and tokens and any   *)
(* timeout that is shorter than the TTL.                                     *)
EXTENDS CleanupLock, TLAPS

\* A token belongs to one run, or to one unlock command that is on its way.
TokensAreUnique ==
  /\ \A p \in Replicas :
       /\ runs[p].pc \in {"idle", "trying"} => runs[p].token = NoToken
       /\ HasLocker /\ runs[p].pc = "working" => runs[p].token # NoToken
       /\ runs[p].pc = "unlocking" => runs[p].token # NoToken
       /\ runs[p].token \notin late
  /\ \A p, q \in Replicas : runs[p].token # NoToken /\ runs[p].token = runs[q].token => p = q

\* The inductive invariant: that the lock outlives its run depends on nobody
\* else being able to release it.
LockInv == LockTypeOK /\ TokensAreUnique /\ LockOutlivesRun

RunTypes == [pc : {"idle", "trying", "working", "unlocking"},
             token : Tokens \cup {NoToken}, left : 0..Timeout]

-----------------------------------------------------------------------------
\* The empty key and the idle replicas satisfy the invariant.
LEMMA LockInvInit == LockInit => LockInv
BY LockAssumption
DEF LockInit, LockInv, LockTypeOK, TokensAreUnique, LockOutlivesRun, Effective, Free, NoRun

\* NoRun is a run, and the key may be free.
LEMMA IdleTypes ==
  /\ NoRun \in RunTypes /\ NoRun.pc = "idle" /\ NoRun.token = NoToken /\ NoRun.left = 0
  /\ Free \in [token : Tokens \cup {NoToken}, ttl : 0..TTL] /\ Free.token = NoToken
BY LockAssumption DEF NoRun, RunTypes, Free

\* A run that ends (its call failed, it found the key or it exits) and leaves
\* the key and the commands on their way alone keeps the invariant.
LEMMA EndKeeps ==
  ASSUME LockInv, NEW p \in Replicas,
         runs' = [runs EXCEPT ![p] = NoRun], UNCHANGED <<lock, late>>,
         replica' \in [Replicas -> {"up", "stopping", "down"}]
  PROVE  LockInv'
<1>1. LockTypeOK'
  BY IdleTypes DEF LockInv, LockTypeOK, RunTypes
<1>2. TokensAreUnique'
  BY IdleTypes, LockAssumption DEF LockInv, LockTypeOK, TokensAreUnique
<1>3. LockOutlivesRun'
  BY IdleTypes DEF LockInv, LockTypeOK, LockOutlivesRun, Effective
<1> QED
  BY <1>1, <1>2, <1>3 DEF LockInv

\* Taking a free key, as a run or in vain, disturbs no run that can make calls:
\* there is none.
LEMMA FreeMeansNoRun ==
  ASSUME LockInv, HasLocker, ~RedisForgets, lock = Free, NEW p \in Replicas
  PROVE  ~Effective(p)
BY IdleTypes DEF LockInv, LockOutlivesRun, TokensAreUnique, Effective

\* Releasing the key under a token that no effective run holds leaves the key of
\* every effective run alone.
LEMMA ReleaseKeeps ==
  ASSUME LockInv, NEW t \in Tokens \cup {NoToken}, Release(t)
  PROVE  /\ lock' \in [token : Tokens \cup {NoToken}, ttl : 0..TTL]
         /\ lock.token # t => lock' = lock
BY IdleTypes DEF Release, LockInv, LockTypeOK

-----------------------------------------------------------------------------
\* Every step of a run keeps the invariant.
LEMMA RunsKeepLockInv ==
  ASSUME LockInv, NEW p \in Replicas, RunStep(p)
  PROVE  LockInv'
<1> USE DEF LockInv
<1>0. runs \in [Replicas -> RunTypes] /\ NoToken \notin Tokens
  BY LockAssumption DEF LockTypeOK, RunTypes
<1>1. CASE Fire(p)
  <2>1. LockTypeOK'
    BY <1>1, LockAssumption DEF Fire, LockTypeOK
  <2>2. TokensAreUnique'
    BY <1>0, <1>1 DEF Fire, LockTypeOK, TokensAreUnique, RunTypes
  <2>3. LockOutlivesRun'
    BY <1>0, <1>1 DEF Fire, LockOutlivesRun, Effective, RunTypes
  <2> QED
    BY <2>1, <2>2, <2>3
<1>2. CASE TryLock(p)
  <2>1. PICK t \in Tokens : /\ NewToken(t)
                            /\ lock' = [token |-> t, ttl |-> TTL]
                            /\ runs' = [runs EXCEPT ![p].pc = "working", ![p].token = t]
    BY <1>2 DEF TryLock
  <2>2. LockTypeOK'
    <3>1. lock' \in [token : Tokens \cup {NoToken}, ttl : 0..TTL]
      BY <2>1, LockAssumption
    <3>2. runs' \in [Replicas -> RunTypes]
      BY <1>0, <2>1 DEF RunTypes
    <3> QED
      BY <1>2, <3>1, <3>2 DEF TryLock, LockTypeOK, RunTypes
  <2>3. TokensAreUnique'
    <3>1. /\ runs'[p].pc = "working" /\ runs'[p].token = t /\ t # NoToken
          /\ \A q \in Replicas : q # p => runs'[q] = runs[q]
          /\ late' = late
      BY <1>0, <1>2, <2>1 DEF TryLock, RunTypes
    <3>2. t \notin late /\ \A q \in Replicas : runs[q].token # t
      BY <2>1 DEF NewToken
    <3> QED
      BY <3>1, <3>2 DEF TokensAreUnique
  <2>4. LockOutlivesRun'
    <3> SUFFICES ASSUME HasLocker, ~RedisForgets, NEW q \in Replicas, Effective(q)'
                 PROVE  lock'.token = runs'[q].token /\ lock'.ttl > runs'[q].left
      BY DEF LockOutlivesRun
    <3>1. q = p
      BY <1>0, <1>2, <2>1, FreeMeansNoRun DEF TryLock, Effective, RunTypes
    <3> QED
      BY <1>0, <2>1, <3>1, LockAssumption DEF RunTypes
  <2> QED
    BY <2>2, <2>3, <2>4
<1>3. CASE Contended(p)
  BY <1>3, EndKeeps DEF Contended, LockTypeOK
<1>4. CASE TryLockFails(p)
  <2>1. CASE UNCHANGED lock
    BY <1>4, <2>1, EndKeeps DEF TryLockFails, LockTypeOK
  <2>2. ASSUME lock = Free, NEW t \in Tokens, NewToken(t), lock' = [token |-> t, ttl |-> TTL]
        PROVE  LockInv'
    <3>1. runs' = [runs EXCEPT ![p] = NoRun] /\ UNCHANGED <<late, replica>>
      BY <1>4 DEF TryLockFails
    <3>2. LockTypeOK'
      BY <2>2, <3>1, IdleTypes, LockAssumption DEF LockTypeOK, RunTypes
    <3>3. TokensAreUnique'
      BY <1>0, <3>1, IdleTypes DEF LockTypeOK, TokensAreUnique, RunTypes
    <3>4. LockOutlivesRun'
      BY <1>0, <2>2, <3>1, IdleTypes, FreeMeansNoRun
      DEF LockOutlivesRun, Effective, RunTypes
    <3> QED
      BY <3>2, <3>3, <3>4
  <2> QED
    BY <1>4, <2>1, <2>2 DEF TryLockFails
<1>5. CASE FinishWork(p)
  <2>1. CASE ~HasLocker
    BY <1>5, <2>1, EndKeeps DEF FinishWork, LockTypeOK
  <2>2. CASE HasLocker
    <3>1. runs' = [runs EXCEPT ![p] = [runs[p] EXCEPT !.pc = "unlocking"]]
      BY <1>5, <2>2 DEF FinishWork
    <3>2. LockTypeOK'
      BY <1>5, <3>1 DEF FinishWork, LockTypeOK
    <3>3. TokensAreUnique'
      <4>1. /\ runs[p].pc = "working" /\ late' = late
            /\ runs'[p].pc = "unlocking" /\ runs'[p].token = runs[p].token
            /\ \A q \in Replicas : q # p => runs'[q] = runs[q]
        BY <1>0, <1>5, <3>1 DEF FinishWork, RunTypes
      <4> QED
        BY <2>2, <4>1 DEF TokensAreUnique
    <3>4. LockOutlivesRun'
      BY <1>0, <1>5, <3>1 DEF FinishWork, LockOutlivesRun, Effective, RunTypes
    <3> QED
      BY <3>2, <3>3, <3>4
  <2> QED
    BY <2>1, <2>2
<1>6. CASE Unlock(p)
  <2>1. runs' = [runs EXCEPT ![p] = NoRun] /\ UNCHANGED <<late, replica>>
    BY <1>6 DEF Unlock
  <2>2. /\ lock' \in [token : Tokens \cup {NoToken}, ttl : 0..TTL]
        /\ lock.token # runs[p].token => lock' = lock
    BY <1>0, <1>6, ReleaseKeeps DEF Unlock, RunTypes
  <2>3. LockTypeOK'
    BY <2>1, <2>2, IdleTypes DEF LockTypeOK, RunTypes
  <2>4. TokensAreUnique'
    BY <1>0, <2>1, IdleTypes DEF LockTypeOK, TokensAreUnique, RunTypes
  <2>5. LockOutlivesRun'
    <3> SUFFICES ASSUME HasLocker, ~RedisForgets, NEW q \in Replicas, Effective(q)'
                 PROVE  lock'.token = runs'[q].token /\ lock'.ttl > runs'[q].left
      BY DEF LockOutlivesRun
    <3>1. q # p /\ runs'[q] = runs[q] /\ Effective(q)
      BY <1>0, <2>1, IdleTypes DEF Effective, RunTypes
    <3>2. lock.token = runs[q].token /\ lock.ttl > runs[q].left /\ runs[q].token # NoToken
      BY <3>1 DEF LockOutlivesRun, TokensAreUnique, Effective
    <3>3. lock.token # runs[p].token
      BY <3>1, <3>2 DEF TokensAreUnique
    <3> QED
      BY <2>2, <3>1, <3>2, <3>3
  <2> QED
    BY <2>3, <2>4, <2>5
<1>7. CASE UnlockFails(p)
  <2>1. /\ runs' = [runs EXCEPT ![p] = NoRun] /\ UNCHANGED <<lock, replica>>
        /\ late' = late \/ late' = late \cup {runs[p].token}
    BY <1>7 DEF UnlockFails
  <2>2. CASE late' = late
    BY <2>1, <2>2, EndKeeps DEF LockTypeOK
  <2>3. CASE late' = late \cup {runs[p].token} /\ runs[p].token \in Tokens
    <3>1. LockTypeOK'
      BY <2>1, <2>3, IdleTypes DEF LockTypeOK, RunTypes
    <3>2. TokensAreUnique'
      BY <1>0, <2>1, <2>3, IdleTypes DEF LockTypeOK, TokensAreUnique, RunTypes
    <3>3. LockOutlivesRun'
      BY <1>0, <2>1, IdleTypes DEF LockOutlivesRun, Effective, RunTypes
    <3> QED
      BY <3>1, <3>2, <3>3
  <2>4. CASE runs[p].token = NoToken
    BY <1>0, <1>7, <2>4 DEF UnlockFails, TokensAreUnique, RunTypes
  <2> QED
    BY <1>0, <2>1, <2>2, <2>3, <2>4 DEF RunTypes
<1> QED
  BY <1>1, <1>2, <1>3, <1>4, <1>5, <1>6, <1>7 DEF RunStep

\* Replicas that stop, exit and start, late commands, time and stuttering keep it.
LEMMA OthersKeepLockInv ==
  ASSUME LockInv,
         \/ \E p \in Replicas : Stop(p) \/ Exit(p) \/ Start(p)
         \/ \E t \in Tokens : LateUnlock(t)
         \/ Tick \/ Forget \/ UNCHANGED vars
  PROVE  LockInv'
<1> USE DEF LockInv
<1>0. runs \in [Replicas -> RunTypes] /\ NoToken \notin Tokens
  BY LockAssumption DEF LockTypeOK, RunTypes
<1>1. ASSUME NEW p \in Replicas, Stop(p) \/ Start(p) PROVE LockInv'
  <2>1. UNCHANGED <<lock, late, runs>> /\ LockTypeOK'
    BY <1>1 DEF Stop, Start, LockTypeOK
  <2> QED
    BY <2>1 DEF TokensAreUnique, LockOutlivesRun, Effective
<1>2. ASSUME NEW p \in Replicas, Exit(p) PROVE LockInv'
  BY <1>2, EndKeeps DEF Exit, LockTypeOK
<1>3. ASSUME NEW t \in Tokens, LateUnlock(t) PROVE LockInv'
  <2>1. /\ t \in late /\ late' = late \ {t} /\ UNCHANGED <<runs, replica>>
        /\ lock' \in [token : Tokens \cup {NoToken}, ttl : 0..TTL]
        /\ lock.token # t => lock' = lock
    BY <1>3, ReleaseKeeps DEF LateUnlock
  <2>2. LockTypeOK' /\ TokensAreUnique'
    BY <2>1 DEF LockTypeOK, TokensAreUnique
  <2>3. LockOutlivesRun'
    BY <2>1 DEF LockOutlivesRun, TokensAreUnique, Effective
  <2> QED
    BY <2>2, <2>3
<1>4. CASE Tick
  <2>1. /\ UNCHANGED <<late, replica>>
        /\ runs' = [p \in Replicas |-> [runs[p] EXCEPT !.left = Less(runs[p].left)]]
        /\ lock' = IF lock.ttl > 1 THEN [lock EXCEPT !.ttl = lock.ttl - 1] ELSE Free
    BY <1>4 DEF Tick
  <2>2. \A p \in Replicas : /\ runs'[p].pc = runs[p].pc /\ runs'[p].token = runs[p].token
                            /\ runs'[p].left = Less(runs[p].left)
                            /\ Less(runs[p].left) \in 0..Timeout
    BY <1>0, <2>1, LockAssumption DEF RunTypes, Less
  <2>3. LockTypeOK'
    <3>1. lock' \in [token : Tokens \cup {NoToken}, ttl : 0..TTL]
      BY <2>1, IdleTypes, LockAssumption DEF LockTypeOK
    <3>2. runs' \in [Replicas -> RunTypes]
      BY <1>0, <2>1, <2>2 DEF RunTypes
    <3> QED
      BY <2>1, <3>1, <3>2 DEF LockTypeOK, RunTypes
  <2>4. TokensAreUnique'
    BY <2>1, <2>2 DEF TokensAreUnique
  <2>5. LockOutlivesRun'
    <3> SUFFICES ASSUME HasLocker, ~RedisForgets, NEW q \in Replicas, Effective(q)'
                 PROVE  lock'.token = runs'[q].token /\ lock'.ttl > runs'[q].left
      BY DEF LockOutlivesRun
    <3>1. runs[q].left \in Nat /\ runs[q].left > 1 /\ runs'[q].left = runs[q].left - 1
      BY <1>0, <2>2, LockAssumption DEF Effective, Less, RunTypes
    <3>2. lock.token = runs[q].token /\ lock.ttl > runs[q].left
      BY <2>2, <3>1 DEF LockOutlivesRun, Effective
    <3>3. lock.ttl \in Nat /\ lock' = [lock EXCEPT !.ttl = lock.ttl - 1]
      BY <2>1, <3>1, <3>2, LockAssumption DEF LockTypeOK
    <3> QED
      BY <2>2, <3>1, <3>2, <3>3 DEF LockTypeOK
  <2> QED
    BY <2>3, <2>4, <2>5
<1>5. CASE Forget
  BY <1>5, IdleTypes DEF Forget, LockTypeOK, TokensAreUnique, LockOutlivesRun
<1>6. CASE UNCHANGED vars
  BY <1>6 DEF vars, LockTypeOK, TokensAreUnique, LockOutlivesRun, Effective
<1> QED
  BY <1>1, <1>2, <1>3, <1>4, <1>5, <1>6

\* The invariant holds in every reachable state.
THEOREM LockInvariant == LockSpec => []LockInv
<1>1. LockInv /\ [LockNext]_vars => LockInv'
  BY RunsKeepLockInv, OthersKeepLockInv DEF LockNext
<1> QED
  BY <1>1, LockInvInit, PTL DEF LockSpec

\* A run that can still make calls holds the lock, and the lock outlives it.
THEOREM LockIsHeld == LockSpec => []LockOutlivesRun
BY LockInvariant, PTL DEF LockInv

\* Cleanup runs of different replicas never overlap, for every timeout shorter
\* than the TTL, however many replicas crash, stop and start.
THEOREM RunsAreExclusive == LockSpec => []OneRunAtATime
<1>1. LockInv => OneRunAtATime
  BY DEF LockInv, TokensAreUnique, LockOutlivesRun, OneRunAtATime, Effective
<1> QED
  BY <1>1, LockInvariant, PTL

\* The key, the tokens and the runs keep their types, however the key expires and
\* replicas come and go.
THEOREM LockTypeCorrect == LockSpec => []LockTypeOK
BY LockInvariant, PTL DEF LockInv

=============================================================================
