----------------------------- MODULE MCWaitQueue -----------------------------
(* The three clients of wait_queue.c, one in each behaviour: a mutex and a *)
(* semaphore on four threads (two in the queue, one that releases, one     *)
(* that comes ahead of the queue), and the keyboard with two readers and a *)
(* ring of two characters, which is often full.                            *)
EXTENDS Keyboard, TLC

CONSTANTS a, b, c, d, MaxCount

VARIABLES
  client,                                                  \* the one that runs
  m_pc, m_waiters, m_blocked, m_popped, locked, owner,     \* the mutex
  s_pc, s_waiters, s_blocked, s_popped, s_count            \* the semaphore

mutexVars == <<m_pc, m_waiters, m_blocked, m_popped, locked, owner>>
semVars == <<s_pc, s_waiters, s_blocked, s_popped, s_count>>
allVars == <<client, vars, mutexVars, semVars>>

Four == {a, b, c, d}
M == INSTANCE Mutex WITH Thread <- Four, pc <- m_pc,
       waiters <- m_waiters, blocked <- m_blocked, popped <- m_popped
S == INSTANCE Semaphore WITH Thread <- Four, pc <- s_pc,
       waiters <- s_waiters, blocked <- s_blocked, popped <- s_popped, count <- s_count

MCInit ==
  /\ Init /\ M!Init /\ S!Init
  /\ client \in {"mutex", "semaphore", "keyboard"}
  /\ client # "semaphore" => s_count = 0

(* With nobody left to signal it, every thread may wait on a semaphore.    *)
MCNext ==
  /\ \/ client = "keyboard" /\ Next /\ UNCHANGED <<mutexVars, semVars>>
     \/ client = "mutex" /\ M!Next /\ UNCHANGED <<vars, semVars>>
     \/ client = "semaphore" /\ S!Next /\ UNCHANGED <<vars, mutexVars>>
     \/ s_blocked = Four /\ UNCHANGED <<vars, mutexVars, semVars>>
  /\ UNCHANGED client

MCSpec == MCInit /\ [][MCNext]_allVars /\ Fairness /\ M!Fairness /\ S!Fairness

-----------------------------------------------------------------------------
(* The properties of Mutex and of Semaphore for these objects; those of    *)
(* the keyboard keep their names.                                          *)

(* mutex_lock and mutex_try_lock let one thread in at a time, the owner.   *)
MutualExclusion == M!MutualExclusion

(* The BLOCKED threads of the mutex are those linked into its queue, once, *)
(* or unlinked by one mutex_unlock that has not woken them yet.            *)
MutexQueue == M!BlockedIsQueued

(* No thread sleeps in the queue of a free mutex unless mutex_unlock or a  *)
(* thread in the loop of mutex_lock is about to see to it.                 *)
MutexWakeup == M!MutexWakeup

(* mutex_t is a pool of one unit, which is given out while it is wanted.   *)
MutexPool == M!MutexPool

(* sem->count is never negative, whoever decrements it.                    *)
SemaphoreType == S!SemaphoreType

(* The BLOCKED threads of the semaphore are those linked into its queue,   *)
(* or unlinked by one semaphore_signal, though several may overlap.        *)
SemaphoreQueue == S!BlockedIsQueued

(* While threads sleep in semaphore_wait, there are as many threads about  *)
(* to wake one or to test the count as there are units.                    *)
SemaphoreWakeup == S!SemaphoreWakeup

(* semaphore_t is a pool whose units are given out while one is wanted.    *)
SemaphorePool == S!SemaphorePool
=============================================================================
