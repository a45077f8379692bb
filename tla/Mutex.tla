-------------------------------- MODULE Mutex --------------------------------
(***************************************************************************)
(* mutex_t of kernel/sync.c on its wait queue.  Threads call mutex_lock    *)
(* and mutex_try_lock when they do not hold the mutex and mutex_unlock     *)
(* when they do, as every caller in the kernel does.  Places of pc:        *)
(*   "outside"  not in a mutex operation, not holding                      *)
(*   "lock"     in mutex_lock with the test of mutex->locked to come       *)
(*   "inside"   mutex_lock or mutex_try_lock has returned success          *)
(* and those of WaitQueue.                                                 *)
(***************************************************************************)
EXTENDS WaitQueue

VARIABLES
  locked,    \* mutex->locked
  owner      \* mutex->owner

mutexVars == <<locked, owner>>
vars == <<pc, queueVars, mutexVars>>

(* Every variable has its type; mutex->locked is 0 or 1.                   *)
TypeOK ==
  /\ QueueType
  /\ pc \in [Thread -> WaitPlaces \cup {"outside", "lock", "inside"}]
  /\ locked \in {0, 1}
  /\ owner \in Thread \cup {None}

(* mutex_init                                                              *)
Init ==
  /\ QueueInit
  /\ pc = [t \in Thread |-> "outside"]
  /\ locked = 0
  /\ owner = None

-----------------------------------------------------------------------------
(* mutex_lock is called; its first irq_save comes next.                    *)
CallLock(t) ==
  /\ pc[t] = "outside"
  /\ Goto(t, "lock")
  /\ UNCHANGED <<queueVars, mutexVars>>

(* mutex->locked and mutex->owner are set.                                 *)
Take(t) ==
  /\ locked' = 1
  /\ owner' = t
  /\ Goto(t, "inside")

\* Mutant of LockTest: a lock is counted, as in a recursive mutex, but for
\* every caller and not only for the owner.
MutLockTest(t) ==
  /\ pc[t] = "lock"
  /\ locked' = locked + 1
  /\ owner' = t
  /\ Goto(t, "inside")
  /\ UNCHANGED queueVars

(* The loop test of mutex_lock under irq_save: take the mutex, or go and   *)
(* wait.                                                                   *)
LockTest(t) ==
  /\ pc[t] = "lock"
  /\ \/ locked = 0 /\ Take(t)
     \/ locked # 0 /\ Goto(t, "wait") /\ UNCHANGED mutexVars
  /\ UNCHANGED queueVars

(* wait_queue_wait with mutex_available_condition.                         *)
LockWait(t) ==
  /\ Wait(t, locked = 0, "lock")
  /\ UNCHANGED mutexVars

(* mutex_try_lock when it succeeds; otherwise it changes nothing.          *)
TryLock(t) ==
  /\ pc[t] = "outside"
  /\ locked = 0
  /\ Take(t)
  /\ UNCHANGED queueVars

\* Mutant of Unlock: no wait_queue_wake_one after the mutex is released.
MutUnlock(t) ==
  /\ pc[t] = "inside"
  /\ locked' = 0
  /\ owner' = None
  /\ Goto(t, "outside")
  /\ UNCHANGED queueVars

(* mutex_unlock up to its irq_restore, by the owner.                       *)
Unlock(t) ==
  /\ pc[t] = "inside"
  /\ locked' = 0
  /\ owner' = None
  /\ Goto(t, "wake")
  /\ UNCHANGED queueVars

(* the wait_queue_wake_one that ends mutex_unlock.                         *)
UnlockPop(t) == WakePop(t, "outside") /\ UNCHANGED mutexVars
UnlockWake(t) == WakePopped(t, "outside") /\ UNCHANGED mutexVars

ThreadStep(t) ==
  \/ CallLock(t) \/ LockTest(t) \/ LockWait(t) \/ TryLock(t)
  \/ Unlock(t) \/ UnlockPop(t) \/ UnlockWake(t)

Next == \E t \in Thread : ThreadStep(t)

Spec == Init /\ [][Next]_vars

(* A thread inside a mutex operation goes on: it is READY or RUNNING, and  *)
(* Scheduler!ReadyThreadRuns gives it the CPU.  Nothing is assumed of how  *)
(* long the mutex is held, or of calls being made.                         *)
Fairness == \A t \in Thread :
  WF_vars(LockTest(t) \/ LockWait(t) \/ UnlockPop(t) \/ UnlockWake(t))

FairSpec == Spec /\ Fairness

-----------------------------------------------------------------------------
(* Mutual exclusion, and the owner field tells who is inside: the panics   *)
(* for a recursive lock, for unlocking an unlocked mutex and for unlocking *)
(* another thread's mutex are unreachable for callers that pair their      *)
(* calls.                                                                  *)
MutualExclusion ==
  /\ \A t \in Thread : pc[t] = "inside" <=> locked = 1 /\ owner = t
  /\ locked = 0 <=> owner = None

(* No wake-up is lost: while threads sleep in the queue of a free mutex,   *)
(* the wake_one of the last unlock is still to come or the thread it woke  *)
(* has not yet looked at the mutex.                                        *)
MutexWakeup ==
  locked = 0 /\ waiters # <<>> =>
    \E t \in Thread : Waking(t) \/ Retrying(t, "lock")

(* The mutex implements a pool of one unit; with FairSpec this includes    *)
(* that a free mutex somebody waits for is taken.                          *)
Pool == INSTANCE ResourcePool
          WITH InitAvailable <- {1},
               available <- 1 - locked,
               wanting <- {t \in Thread : pc[t] \in {"lock", "wait"}}

MutexPool == Pool!Spec
=============================================================================
