----------------------------- MODULE MutexProofs -----------------------------
(***************************************************************************)
(* Mutex, for any number of threads: mutual exclusion, no lost wake-up,    *)
(* and the safety part of the implementation of ResourcePool.              *)
(***************************************************************************)
EXTENDS Mutex, WaitQueueProofs

(* The inductive invariant.                                                *)
MutexInv == TypeOK /\ QueueInv /\ MutualExclusion /\ MutexWakeup

(* mutex_init establishes the invariant.                                   *)
LEMMA InitInv == Init => MutexInv
  BY NoneAssumption
     DEF Init, QueueInit, MutexInv, TypeOK, QueueType, QueueInv, BlockedIsQueued,
         InQueue, MutualExclusion, MutexWakeup, WaitPlaces

(* A thread enters mutex_lock.                                             *)
LEMMA CallLockInv ==
  ASSUME MutexInv, NEW t \in Thread, CallLock(t)
  PROVE  MutexInv'
  <1>1. t \notin blocked
    BY DEF MutexInv, QueueInv, BlockedIsQueued, CallLock
  <1>2. QueueInv'
    BY <1>1, MoveInv DEF MutexInv, CallLock
  <1>3. TypeOK'
    BY <1>2 DEF MutexInv, QueueInv, TypeOK, CallLock, Goto, mutexVars
  <1>4. MutualExclusion'
    BY DEF MutexInv, TypeOK, MutualExclusion, CallLock, Goto, mutexVars
  <1>5. MutexWakeup'
    BY DEF MutexInv, TypeOK, MutexWakeup, CallLock, Goto, mutexVars, queueVars, Waking, Retrying
  <1> QED BY <1>2, <1>3, <1>4, <1>5 DEF MutexInv

(* The mutex is taken by mutex_lock or mutex_try_lock.                     *)
LEMMA TakeInv ==
  ASSUME MutexInv, NEW t \in Thread, pc[t] \in {"lock", "outside"}, locked = 0,
         Take(t), UNCHANGED queueVars
  PROVE  MutexInv'
  <1>1. t \notin blocked
    BY DEF MutexInv, QueueInv, BlockedIsQueued
  <1>2. QueueInv'
    BY <1>1, MoveInv DEF MutexInv, Take
  <1>3. TypeOK'
    BY <1>2 DEF MutexInv, QueueInv, TypeOK, Take, Goto
  <1>4. MutualExclusion'
    BY NoneAssumption DEF MutexInv, TypeOK, MutualExclusion, Take, Goto
  <1>5. MutexWakeup'
    BY DEF MutexWakeup, Take
  <1> QED BY <1>2, <1>3, <1>4, <1>5 DEF MutexInv

(* The loop test of mutex_lock.                                            *)
LEMMA LockTestInv ==
  ASSUME MutexInv, NEW t \in Thread, LockTest(t)
  PROVE  MutexInv'
  <1>1. CASE locked = 0
    BY <1>1, TakeInv DEF LockTest
  <1>2. CASE locked # 0
    <2>1. pc[t] = "lock" /\ Goto(t, "wait") /\ UNCHANGED mutexVars /\ UNCHANGED queueVars
      BY <1>2 DEF LockTest
    <2>2. t \notin blocked
      BY <2>1 DEF MutexInv, QueueInv, BlockedIsQueued
    <2>3. QueueInv'
      BY <2>1, <2>2, MoveInv DEF MutexInv
    <2>4. TypeOK'
      BY <2>1, <2>3 DEF MutexInv, QueueInv, TypeOK, Goto, mutexVars, WaitPlaces
    <2>5. MutualExclusion'
      BY <2>1 DEF MutexInv, TypeOK, MutualExclusion, Goto, mutexVars
    <2>6. MutexWakeup'
      BY <1>2, <2>1 DEF MutexWakeup, mutexVars
    <2> QED BY <2>3, <2>4, <2>5, <2>6 DEF MutexInv
  <1> QED BY <1>1, <1>2

(* One turn of the loop of wait_queue_wait.                                *)
LEMMA LockWaitInv ==
  ASSUME MutexInv, NEW t \in Thread, LockWait(t)
  PROVE  MutexInv'
  <1>1. /\ pc[t] = "wait" /\ t \notin blocked /\ UNCHANGED <<popped, locked, owner>>
        /\ \/ locked = 0 /\ Goto(t, "lock") /\ UNCHANGED <<waiters, blocked>>
           \/ /\ locked # 0 /\ waiters' = Append(waiters, t)
              /\ blocked' = blocked \cup {t} /\ UNCHANGED pc
    BY DEF LockWait, Wait, mutexVars
  <1>2. CASE locked = 0
    <2>1. QueueInv'
      BY <1>1, <1>2, MoveInv DEF MutexInv, queueVars
    <2>2. TypeOK'
      BY <1>1, <1>2, <2>1 DEF MutexInv, QueueInv, TypeOK, Goto
    <2>3. MutualExclusion'
      BY <1>1, <1>2 DEF MutexInv, TypeOK, MutualExclusion, Goto
    <2>4. MutexWakeup'
      BY <1>1, <1>2 DEF MutexInv, TypeOK, MutexWakeup, Goto, Waking, Retrying
    <2> QED BY <2>1, <2>2, <2>3, <2>4 DEF MutexInv
  <1>3. CASE locked # 0
    <2>1. QueueInv'
      BY <1>1, <1>3, ParkInv DEF MutexInv
    <2>2. TypeOK'
      BY <1>1, <1>3, <2>1 DEF MutexInv, QueueInv, TypeOK
    <2>3. MutualExclusion'
      BY <1>1, <1>3 DEF MutexInv, MutualExclusion
    <2>4. MutexWakeup'
      BY <1>1, <1>3 DEF MutexWakeup
    <2> QED BY <2>1, <2>2, <2>3, <2>4 DEF MutexInv
  <1> QED BY <1>2, <1>3

(* mutex_unlock leaves a wake-up in progress behind.                       *)
LEMMA UnlockInv ==
  ASSUME MutexInv, NEW t \in Thread, Unlock(t)
  PROVE  MutexInv'
  <1>1. t \notin blocked
    BY DEF MutexInv, QueueInv, BlockedIsQueued, Unlock
  <1>2. QueueInv'
    BY <1>1, MoveInv DEF MutexInv, Unlock
  <1>3. TypeOK'
    BY <1>2 DEF MutexInv, QueueInv, TypeOK, Unlock, Goto, WaitPlaces
  <1>4. MutualExclusion'
    BY NoneAssumption DEF MutexInv, TypeOK, MutualExclusion, Unlock, Goto
  <1>5. MutexWakeup'
    BY DEF MutexInv, TypeOK, MutexWakeup, Unlock, Goto, Waking
  <1> QED BY <1>2, <1>3, <1>4, <1>5 DEF MutexInv

(* The waker keeps the wake-up in its hands, or finds nobody to wake.      *)
LEMMA UnlockPopInv ==
  ASSUME MutexInv, NEW t \in Thread, UnlockPop(t)
  PROVE  MutexInv'
  <1>1. /\ pc[t] = "wake" /\ UNCHANGED <<blocked, locked, owner>>
        /\ \/ waiters = <<>> /\ Goto(t, "outside") /\ UNCHANGED <<waiters, popped>>
           \/ /\ waiters # <<>> /\ popped' = [popped EXCEPT ![t] = Head(waiters)]
              /\ waiters' = Tail(waiters) /\ Goto(t, "popped")
    BY DEF UnlockPop, WakePop, mutexVars
  <1>2. t \notin blocked
    BY <1>1 DEF MutexInv, QueueInv, BlockedIsQueued
  <1>3. QueueInv'
    <2>1. CASE waiters = <<>>
      BY <1>1, <1>2, <2>1, MoveInv DEF MutexInv, queueVars
    <2>2. CASE waiters # <<>>
      BY <1>1, <2>2, PopInv DEF MutexInv
    <2> QED BY <2>1, <2>2
  <1>4. TypeOK'
    BY <1>1, <1>3 DEF MutexInv, QueueInv, TypeOK, Goto, WaitPlaces
  <1>5. MutualExclusion'
    BY <1>1 DEF MutexInv, TypeOK, MutualExclusion, Goto
  <1>6. MutexWakeup'
    BY <1>1 DEF MutexInv, TypeOK, MutexWakeup, Goto, Waking
  <1> QED BY <1>3, <1>4, <1>5, <1>6 DEF MutexInv

(* The woken thread takes over from the waker.                             *)
LEMMA UnlockWakeInv ==
  ASSUME MutexInv, NEW t \in Thread, UnlockWake(t)
  PROVE  MutexInv'
  <1>1. WakePopped(t, "outside") /\ UNCHANGED <<locked, owner>>
    BY DEF UnlockWake, mutexVars
  <1>2. QueueInv' /\ popped[t] \in blocked /\ pc[popped[t]] = "wait" /\ popped[t] # t
    BY <1>1, WakeInv DEF MutexInv
  <1>3. TypeOK'
    BY <1>1, <1>2 DEF MutexInv, QueueInv, TypeOK, WakePopped, Goto
  <1>4. MutualExclusion'
    BY <1>1 DEF MutexInv, TypeOK, MutualExclusion, WakePopped, Goto
  <1>5. MutexWakeup'
    <2>1. popped[t] \in Thread /\ pc'[popped[t]] = "wait" /\ popped[t] \notin blocked'
      BY <1>1, <1>2 DEF MutexInv, TypeOK, QueueType, WakePopped, Goto
    <2> QED BY <2>1 DEF MutexWakeup, Retrying
  <1> QED BY <1>2, <1>3, <1>4, <1>5 DEF MutexInv

(* Every step preserves the invariant.                                     *)
LEMMA NextInv == MutexInv /\ [Next]_vars => MutexInv'
  <1> SUFFICES ASSUME MutexInv, [Next]_vars PROVE MutexInv'
    OBVIOUS
  <1>1. ASSUME NEW t \in Thread, ThreadStep(t) PROVE MutexInv'
    <2>1. CASE TryLock(t)
      BY <2>1, TakeInv DEF TryLock
    <2> QED BY <1>1, <2>1, CallLockInv, LockTestInv, LockWaitInv, UnlockInv,
               UnlockPopInv, UnlockWakeInv DEF ThreadStep
  <1>2. CASE UNCHANGED vars
    BY <1>2 DEF vars, queueVars, mutexVars, MutexInv, TypeOK, QueueType, QueueInv,
                BlockedIsQueued, InQueue, MutualExclusion, MutexWakeup, Waking, Retrying
  <1> QED BY <1>1, <1>2 DEF Next

(* Whatever the number of threads and however the timer interleaves them,  *)
(* the links of the wait queue, the owner and the wake-ups in progress     *)
(* stay consistent.                                                        *)
THEOREM Inductive == Spec => []MutexInv
  BY InitInv, NextInv, PTL DEF Spec

(* Mutual exclusion of mutex_lock and mutex_try_lock.                      *)
THEOREM AlwaysExclusive == Spec => []MutualExclusion
  BY Inductive, PTL DEF MutexInv

(* A thread asleep on a free mutex is always about to be woken, or another *)
(* is about to take the mutex (and will wake it when it unlocks).          *)
THEOREM WakeupsNeverLost == Spec => []MutexWakeup
  BY Inductive, PTL DEF MutexInv

(* Every blocked thread stays reachable for a waker, exactly once.         *)
THEOREM AlwaysQueued == Spec => []BlockedIsQueued
  <1>1. MutexInv => BlockedIsQueued
    BY DEF MutexInv, QueueInv
  <1> QED BY <1>1, Inductive, PTL

(* The mutex never gives out its unit twice and every step of mutex_lock,  *)
(* mutex_try_lock, mutex_unlock and the wait queue is one step of the      *)
(* abstract pool or none.                                                  *)
THEOREM ImplementsSafePool == Spec => Pool!Safe
  <1>1. Init => Pool!Init
    BY DEF Init, Pool!Init
  <1>2. MutexInv /\ [Next]_vars => [Pool!Next]_(Pool!poolVars)
    <2> SUFFICES ASSUME MutexInv, [Next]_vars PROVE [Pool!Next]_(Pool!poolVars)
      OBVIOUS
    <2> DEFINE W == {u \in Thread : pc[u] \in {"lock", "wait"}}
               V == {u \in Thread : pc'[u] \in {"lock", "wait"}}
    <2>1. ASSUME NEW t \in Thread, ThreadStep(t) PROVE [Pool!Next]_(Pool!poolVars)
      <3>1. CASE CallLock(t)
        <4>1. t \notin W /\ V = W \cup {t} /\ 1 - locked' = 1 - locked
          BY <3>1 DEF CallLock, Goto, mutexVars, MutexInv, TypeOK
        <4> QED BY <4>1 DEF Pool!Next, Pool!Request
      <3>2. CASE LockTest(t) /\ locked = 0
        <4>1. t \in W /\ V = W \ {t} /\ 1 - locked > 0 /\ 1 - locked' = (1 - locked) - 1
          BY <3>2 DEF LockTest, Take, Goto, MutexInv, TypeOK
        <4> QED BY <4>1 DEF Pool!Next, Pool!Grant
      <3>3. CASE TryLock(t)
        <4>1. t \notin W /\ V = W /\ 1 - locked > 0 /\ 1 - locked' = (1 - locked) - 1
          BY <3>3 DEF TryLock, Take, Goto, MutexInv, TypeOK
        <4> QED BY <4>1 DEF Pool!Next, Pool!TryGrant
      <3>4. CASE Unlock(t)
        <4>1. t \notin W /\ V = W /\ 1 - locked' = (1 - locked) + 1
          BY <3>4 DEF Unlock, Goto, MutexInv, TypeOK, MutualExclusion
        <4> QED BY <4>1 DEF Pool!Next, Pool!Release
      <3>5. CASE \/ (LockTest(t) /\ locked # 0) \/ LockWait(t)
                 \/ UnlockPop(t) \/ UnlockWake(t)
        <4>1. V = W /\ locked' = locked
          BY <3>5 DEF LockTest, LockWait, Wait, UnlockPop, WakePop, UnlockWake, WakePopped,
                      Goto, mutexVars, MutexInv, TypeOK
        <4> QED BY <4>1 DEF Pool!poolVars
      <3> QED BY <2>1, <3>1, <3>2, <3>3, <3>4, <3>5 DEF ThreadStep
    <2>2. CASE UNCHANGED vars
      BY <2>2 DEF vars, mutexVars, Pool!poolVars
    <2> QED BY <2>1, <2>2 DEF Next
  <1> QED BY <1>1, <1>2, Inductive, PTL DEF Spec, Pool!Safe
=============================================================================
