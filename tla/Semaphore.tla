------------------------------ MODULE Semaphore ------------------------------
(***************************************************************************)
(* semaphore_t of kernel/sync.c on its wait queue.  Any thread may wait    *)
(* for, try, or signal the semaphore.  Places of pc: "outside" the         *)
(* semaphore operations; "test", in semaphore_wait with the test of        *)
(* sem->count to come; and those of WaitQueue.                             *)
(***************************************************************************)
EXTENDS WaitQueue

CONSTANT MaxCount   \* bound of the model: no initial count and no signal beyond it

VARIABLE count   \* sem->count

vars == <<pc, queueVars, count>>

(* Every variable has its type; in particular sem->count never goes        *)
(* negative, whoever decrements it.                                        *)
SemaphoreType ==
  /\ QueueType
  /\ pc \in [Thread -> WaitPlaces \cup {"outside", "test"}]
  /\ count \in Nat

(* semaphore_init, which requires that initial_count is not negative.      *)
Init ==
  /\ QueueInit
  /\ pc = [t \in Thread |-> "outside"]
  /\ count \in 0..MaxCount

-----------------------------------------------------------------------------
(* semaphore_wait is called; its first irq_save comes next.                *)
CallWait(t) ==
  /\ pc[t] = "outside"
  /\ Goto(t, "test")
  /\ UNCHANGED <<queueVars, count>>

\* Mutant of WaitTest: a thread that has waited takes a unit without testing
\* the count again, an if in place of the while.
MutWaitTest(t) ==
  /\ pc[t] = "test"
  /\ count' = count - 1 /\ Goto(t, "outside")
  /\ UNCHANGED queueVars

(* The loop test of semaphore_wait under irq_save.                         *)
WaitTest(t) ==
  /\ pc[t] = "test"
  /\ \/ count > 0 /\ count' = count - 1 /\ Goto(t, "outside")
     \/ count <= 0 /\ Goto(t, "wait") /\ UNCHANGED count
  /\ UNCHANGED queueVars

(* wait_queue_wait with semaphore_available_condition.                     *)
WaitPark(t) ==
  /\ Wait(t, count > 0, "test")
  /\ UNCHANGED count

(* semaphore_try_wait when it succeeds; otherwise it changes nothing.      *)
TryWait(t) ==
  /\ pc[t] = "outside"
  /\ count > 0
  /\ count' = count - 1
  /\ UNCHANGED <<pc, queueVars>>

\* Mutant of Signal: only the first unit of an exhausted semaphore wakes a
\* waiter.
MutSignal(t) ==
  /\ pc[t] = "outside"
  /\ count < MaxCount
  /\ count' = count + 1
  /\ Goto(t, IF count = 0 THEN "wake" ELSE "outside")
  /\ UNCHANGED queueVars

(* semaphore_signal up to its irq_restore.                                 *)
Signal(t) ==
  /\ pc[t] = "outside"
  /\ count < MaxCount
  /\ count' = count + 1
  /\ Goto(t, "wake")
  /\ UNCHANGED queueVars

(* the wait_queue_wake_one that ends semaphore_signal.                     *)
SignalPop(t) == WakePop(t, "outside") /\ UNCHANGED count
SignalWake(t) == WakePopped(t, "outside") /\ UNCHANGED count

ThreadStep(t) ==
  \/ CallWait(t) \/ WaitTest(t) \/ WaitPark(t) \/ TryWait(t)
  \/ Signal(t) \/ SignalPop(t) \/ SignalWake(t)

Next == \E t \in Thread : ThreadStep(t)

Spec == Init /\ [][Next]_vars

(* As in Mutex: a thread inside an operation that is not blocked goes on.  *)
Fairness == \A t \in Thread :
  WF_vars(WaitTest(t) \/ WaitPark(t) \/ SignalPop(t) \/ SignalWake(t))

FairSpec == Spec /\ Fairness

-----------------------------------------------------------------------------
(* No wake-up is lost, counted: while threads sleep in the queue, there    *)
(* are at least as many threads about to wake one of them, or awake and    *)
(* about to test the count, as there are units available.                  *)
Active == {t \in Thread : Waking(t) \/ Retrying(t, "test")}

SemaphoreWakeup == waiters # <<>> => count <= Cardinality(Active)

(* The semaphore implements a pool of the units it is initialised with;    *)
(* with FairSpec this includes that a unit is not left while a thread      *)
(* waits for one.                                                          *)
Pool == INSTANCE ResourcePool
          WITH InitAvailable <- 0..MaxCount,
               available <- count,
               wanting <- {t \in Thread : pc[t] \in {"test", "wait"}}

SemaphorePool == Pool!Spec
=============================================================================
