------------------------------ MODULE WaitQueue ------------------------------
(***************************************************************************)
(* A wait queue of kernel/wait_queue.c as its clients use it (Mutex,       *)
(* Semaphore, Keyboard).                                                   *)
(*                                                                         *)
(* The scheduler is abstracted to what module Scheduler shows of it: a     *)
(* thread that is not BLOCKED may run its next step at any time, and a     *)
(* step is a stretch of code between irq_save and irq_restore.  Every      *)
(* place where a thread runs with interrupts enabled is a value of pc:     *)
(*   "wait"    entering wait_queue_wait, or in it and blocked, or in it    *)
(*             and dispatched again by the scheduler                       *)
(*   "wake"    entering wait_queue_wake_one                                *)
(*   "popped"  in wait_queue_wake_one, before thread_wake                  *)
(* and the clients add the places of their own code.                       *)
(***************************************************************************)
EXTENDS Naturals, Sequences, FiniteSets

CONSTANTS
  Thread,    \* the threads that use the queue
  None       \* the null thread pointer

ASSUME NoneAssumption == None \notin Thread
ASSUME FiniteAssumption == IsFiniteSet(Thread)

VARIABLES
  pc,        \* where a thread is
  waiters,   \* the list from queue->head to queue->tail
  blocked,   \* the threads whose state is THREAD_BLOCKED
  popped     \* the thread a waker has unlinked and has not yet woken

queueVars == <<waiters, blocked, popped>>

WaitPlaces == {"wait", "wake", "popped"}

Goto(t, place) == pc' = [pc EXCEPT ![t] = place]

QueueType ==
  /\ waiters \in Seq(Thread)
  /\ blocked \in SUBSET Thread
  /\ popped \in [Thread -> Thread \cup {None}]

QueueInit ==
  /\ waiters = <<>>
  /\ blocked = {}
  /\ popped = [t \in Thread |-> None]

-----------------------------------------------------------------------------
\* Mutant of Wait: the caller's earlier test is trusted, the thread parks
\* without testing the condition again under irq_save.
MutWait(t, condition, after) ==
  /\ pc[t] = "wait" /\ t \notin blocked
  /\ waiters' = Append(waiters, t)
  /\ blocked' = blocked \cup {t}
  /\ UNCHANGED <<pc, popped>>

(* One turn of the loop of wait_queue_wait, from irq_save or from the      *)
(* return of thread_yield: interrupts are disabled from the test of the    *)
(* condition until the thread has been linked, blocked and switched out.   *)
Wait(t, condition, after) ==
  /\ pc[t] = "wait" /\ t \notin blocked
  /\ \/ /\ condition
        /\ Goto(t, after)
        /\ UNCHANGED <<waiters, blocked>>
     \/ /\ ~ condition
        /\ waiters' = Append(waiters, t)
        /\ blocked' = blocked \cup {t}
        /\ UNCHANGED pc
  /\ UNCHANGED popped

\* Mutant of WakePop: the head is read but not unlinked.
MutWakePop(t, after) ==
  /\ pc[t] = "wake"
  /\ \/ /\ waiters = <<>>
        /\ Goto(t, after)
        /\ UNCHANGED <<waiters, popped>>
     \/ /\ waiters # <<>>
        /\ popped' = [popped EXCEPT ![t] = Head(waiters)]
        /\ waiters' = waiters
        /\ Goto(t, "popped")
  /\ UNCHANGED blocked

(* wait_queue_wake_one: wait_queue_pop_locked under irq_save, then, with   *)
(* interrupts enabled again, thread_wake on what was popped.               *)
WakePop(t, after) ==
  /\ pc[t] = "wake"
  /\ \/ /\ waiters = <<>>
        /\ Goto(t, after)
        /\ UNCHANGED <<waiters, popped>>
     \/ /\ waiters # <<>>
        /\ popped' = [popped EXCEPT ![t] = Head(waiters)]
        /\ waiters' = Tail(waiters)
        /\ Goto(t, "popped")
  /\ UNCHANGED blocked

WakePopped(t, after) ==
  /\ pc[t] = "popped"
  /\ blocked' = blocked \ {popped[t]}
  /\ popped' = [popped EXCEPT ![t] = None]
  /\ Goto(t, after)
  /\ UNCHANGED waiters

-----------------------------------------------------------------------------
InQueue(t) == \E i \in 1..Len(waiters) : waiters[i] = t

(* The links of the queue agree with thread->state: the BLOCKED threads    *)
(* are those linked, once, into the queue and those a waker has unlinked   *)
(* and not yet woken, each held by one waker.  A blocked thread is         *)
(* therefore never lost between wait_queue_pop_locked and thread_wake, and *)
(* never woken twice.                                                      *)
BlockedIsQueued ==
  /\ \A i, j \in 1..Len(waiters) : waiters[i] = waiters[j] => i = j
  /\ \A t \in Thread : t \in blocked <=> InQueue(t) \/ \E w \in Thread : popped[w] = t
  /\ \A t, w \in Thread : popped[w] = t => ~ InQueue(t)
  /\ \A v, w \in Thread : popped[v] = popped[w] /\ popped[v] # None => v = w
  /\ \A t \in Thread : t \in blocked => pc[t] = "wait"

(* t is on its way to a wake-up of the queue, or awake in a waiting loop   *)
(* whose place outside wait_queue_wait is retry.                           *)
Waking(t) == pc[t] \in {"wake", "popped"}
Retrying(t, retry) == pc[t] = retry \/ (pc[t] = "wait" /\ t \notin blocked)
=============================================================================
