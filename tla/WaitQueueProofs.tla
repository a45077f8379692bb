--------------------------- MODULE WaitQueueProofs ---------------------------
(***************************************************************************)
(* What one step of wait_queue.c does to the links of the queue, for any   *)
(* number of threads; shared by the proofs of Mutex and Semaphore.         *)
(***************************************************************************)
EXTENDS WaitQueue, SequenceTheorems, TLAPS

(* BlockedIsQueued made inductive: a waker holds a thread exactly while it *)
(* is between wait_queue_pop_locked and thread_wake.                       *)
QueueInv ==
  /\ QueueType
  /\ BlockedIsQueued
  /\ pc = [t \in Thread |-> pc[t]]
  /\ \A w \in Thread : popped[w] # None <=> pc[w] = "popped"

(* A step that moves an unblocked thread outside wait_queue_wake_one and   *)
(* leaves the queue alone.                                                 *)
LEMMA MoveInv ==
  ASSUME QueueInv, NEW t \in Thread, NEW p, pc[t] # "popped", p # "popped",
         t \notin blocked, Goto(t, p), UNCHANGED queueVars
  PROVE  QueueInv'
  BY DEF QueueInv, QueueType, BlockedIsQueued, InQueue, Goto, queueVars

(* wait_queue_push_locked and thread_block_current.                        *)
LEMMA ParkInv ==
  ASSUME QueueInv, NEW t \in Thread, pc[t] = "wait", t \notin blocked,
         waiters' = Append(waiters, t), blocked' = blocked \cup {t},
         UNCHANGED <<pc, popped>>
  PROVE  QueueInv'
  <1>1. /\ Len(waiters) \in Nat /\ waiters \in Seq(Thread)
        /\ Len(waiters') = Len(waiters) + 1 /\ waiters' \in Seq(Thread)
        /\ \A i \in 1..Len(waiters) : waiters'[i] = waiters[i]
        /\ waiters'[Len(waiters) + 1] = t
    BY DEF QueueInv, QueueType
  <1>2. ~ InQueue(t) /\ \A w \in Thread : popped[w] # t
    BY DEF QueueInv, BlockedIsQueued
  <1>3. \A u \in Thread : InQueue(u)' <=> InQueue(u) \/ u = t
    BY <1>1 DEF InQueue
  <1>4. \A i, j \in 1..Len(waiters') : waiters'[i] = waiters'[j] => i = j
    BY <1>1, <1>2 DEF QueueInv, BlockedIsQueued, InQueue
  <1>5. BlockedIsQueued'
    BY <1>2, <1>3, <1>4 DEF QueueInv, BlockedIsQueued
  <1> QED BY <1>1, <1>5 DEF QueueInv, QueueType

(* wait_queue_pop_locked on a queue that is not empty.                     *)
LEMMA PopInv ==
  ASSUME QueueInv, NEW t \in Thread, pc[t] = "wake", waiters # <<>>,
         popped' = [popped EXCEPT ![t] = Head(waiters)],
         waiters' = Tail(waiters), Goto(t, "popped"), UNCHANGED blocked
  PROVE  QueueInv'
  <1>1. /\ Len(waiters) \in Nat /\ Len(waiters) > 0
        /\ waiters[1] \in Thread /\ Head(waiters) = waiters[1]
        /\ Len(waiters') = Len(waiters) - 1 /\ waiters' \in Seq(Thread)
        /\ \A i \in 1..(Len(waiters) - 1) : waiters'[i] = waiters[i + 1]
    BY DEF QueueInv, QueueType
  <1>2. /\ InQueue(waiters[1]) /\ waiters[1] # None
        /\ \A w \in Thread : popped[w] # waiters[1]
    <2>1. 1 \in 1..Len(waiters)
      BY <1>1
    <2>2. InQueue(waiters[1])
      BY <2>1 DEF InQueue
    <2> QED BY <1>1, <2>2, NoneAssumption DEF QueueInv, BlockedIsQueued
  <1>3. popped[t] = None
    BY DEF QueueInv
  <1>4. \A u \in Thread : InQueue(u)' <=> InQueue(u) /\ u # waiters[1]
    <2> TAKE u \in Thread
    <2>1. ASSUME InQueue(u), u # waiters[1] PROVE InQueue(u)'
      <3>1. PICK i \in 1..Len(waiters) : waiters[i] = u
        BY <2>1 DEF InQueue
      <3>2. i - 1 \in 1..Len(waiters') /\ waiters'[i - 1] = u
        BY <1>1, <2>1, <3>1
      <3> QED BY <3>2 DEF InQueue
    <2>2. ASSUME InQueue(u)' PROVE InQueue(u) /\ u # waiters[1]
      <3>1. PICK i \in 1..Len(waiters') : waiters'[i] = u
        BY <2>2 DEF InQueue
      <3>2. i + 1 \in 1..Len(waiters) /\ waiters[i + 1] = u /\ 1 \in 1..Len(waiters)
        BY <1>1, <3>1
      <3> QED BY <3>1, <3>2 DEF QueueInv, BlockedIsQueued, InQueue
    <2> QED BY <2>1, <2>2
  <1>5. \A i, j \in 1..Len(waiters') : waiters'[i] = waiters'[j] => i = j
    <2> TAKE i, j \in 1..Len(waiters')
    <2>1. i + 1 \in 1..Len(waiters) /\ j + 1 \in 1..Len(waiters)
      BY <1>1
    <2> QED BY <1>1, <2>1 DEF QueueInv, BlockedIsQueued
  <1>6. \A w \in Thread : popped'[w] = IF w = t THEN waiters[1] ELSE popped[w]
    BY <1>1 DEF QueueInv, QueueType
  <1>7. \A u \in Thread : u \in blocked' <=> InQueue(u)' \/ \E w \in Thread : popped'[w] = u
    BY <1>2, <1>3, <1>4, <1>6, NoneAssumption DEF QueueInv, BlockedIsQueued
  <1>8. \A u, w \in Thread : popped'[w] = u => ~ InQueue(u)'
    BY <1>4, <1>6 DEF QueueInv, BlockedIsQueued
  <1>9. \A v, w \in Thread : popped'[v] = popped'[w] /\ popped'[v] # None => v = w
    BY <1>2, <1>6 DEF QueueInv, BlockedIsQueued
  <1>10. \A u \in Thread : u \in blocked' => pc'[u] = "wait"
    BY DEF QueueInv, BlockedIsQueued, Goto
  <1>11. BlockedIsQueued'
    BY <1>5, <1>7, <1>8, <1>9, <1>10 DEF BlockedIsQueued
  <1>12. QueueType'
    BY <1>1 DEF QueueInv, QueueType
  <1>13. /\ pc' = [u \in Thread |-> pc'[u]]
         /\ \A w \in Thread : popped'[w] # None <=> pc'[w] = "popped"
    BY <1>2, <1>6 DEF QueueInv, Goto
  <1> QED BY <1>11, <1>12, <1>13 DEF QueueInv

(* Both halves of wait_queue_wake_one at once, as in an interrupt handler. *)
LEMMA PopWakeInv ==
  ASSUME QueueInv, waiters # <<>>, waiters' = Tail(waiters),
         blocked' = blocked \ {Head(waiters)}, UNCHANGED <<pc, popped>>
  PROVE  /\ QueueInv'
         /\ Head(waiters) \in Thread /\ Head(waiters) \in blocked /\ pc[Head(waiters)] = "wait"
  <1>1. /\ Len(waiters) \in Nat /\ Len(waiters) > 0 /\ 1 \in 1..Len(waiters)
        /\ waiters[1] \in Thread /\ Head(waiters) = waiters[1]
        /\ Len(waiters') = Len(waiters) - 1 /\ waiters' \in Seq(Thread)
        /\ \A i \in 1..(Len(waiters) - 1) : waiters'[i] = waiters[i + 1]
    BY DEF QueueInv, QueueType
  <1>2. InQueue(waiters[1])
    BY <1>1 DEF InQueue
  <1>3. \A w \in Thread : popped[w] # waiters[1]
    BY <1>1, <1>2 DEF QueueInv, BlockedIsQueued
  <1>4. \A u \in Thread : InQueue(u)' <=> InQueue(u) /\ u # waiters[1]
    <2> TAKE u \in Thread
    <2>1. ASSUME InQueue(u), u # waiters[1] PROVE InQueue(u)'
      <3>1. PICK i \in 1..Len(waiters) : waiters[i] = u
        BY <2>1 DEF InQueue
      <3>2. i - 1 \in 1..Len(waiters') /\ waiters'[i - 1] = u
        BY <1>1, <2>1, <3>1
      <3> QED BY <3>2 DEF InQueue
    <2>2. ASSUME InQueue(u)' PROVE InQueue(u) /\ u # waiters[1]
      <3>1. PICK i \in 1..Len(waiters') : waiters'[i] = u
        BY <2>2 DEF InQueue
      <3>2. i + 1 \in 1..Len(waiters) /\ waiters[i + 1] = u
        BY <1>1, <3>1
      <3> QED BY <1>1, <3>1, <3>2 DEF QueueInv, BlockedIsQueued, InQueue
    <2> QED BY <2>1, <2>2
  <1>5. \A i, j \in 1..Len(waiters') : waiters'[i] = waiters'[j] => i = j
    <2> TAKE i, j \in 1..Len(waiters')
    <2>1. i + 1 \in 1..Len(waiters) /\ j + 1 \in 1..Len(waiters)
      BY <1>1
    <2> QED BY <1>1, <2>1 DEF QueueInv, BlockedIsQueued
  <1>6. BlockedIsQueued'
    BY <1>1, <1>3, <1>4, <1>5 DEF QueueInv, BlockedIsQueued
  <1>7. QueueType'
    BY <1>1 DEF QueueInv, QueueType
  <1>8. waiters[1] \in blocked /\ pc[waiters[1]] = "wait"
    BY <1>1, <1>2 DEF QueueInv, BlockedIsQueued
  <1> QED BY <1>1, <1>6, <1>7, <1>8 DEF QueueInv

(* thread_wake on the popped thread.                                       *)
LEMMA WakeInv ==
  ASSUME QueueInv, NEW t \in Thread, NEW p, p # "popped", WakePopped(t, p)
  PROVE  /\ QueueInv'
         /\ popped[t] \in blocked /\ pc[popped[t]] = "wait" /\ popped[t] # t
  <1>1. popped[t] # None /\ popped[t] \in Thread /\ pc[t] = "popped"
    BY DEF QueueInv, QueueType, WakePopped
  <1>2. popped[t] \in blocked /\ pc[popped[t]] = "wait" /\ popped[t] # t
    BY <1>1 DEF QueueInv, BlockedIsQueued
  <1>3. \A w \in Thread : popped'[w] = IF w = t THEN None ELSE popped[w]
    BY DEF QueueInv, QueueType, WakePopped
  <1>4. \A u \in Thread : InQueue(u)' <=> InQueue(u)
    BY DEF InQueue, WakePopped
  <1>5. \A u \in Thread : u \in blocked' <=> InQueue(u)' \/ \E w \in Thread : popped'[w] = u
    BY <1>1, <1>3, <1>4, NoneAssumption DEF QueueInv, BlockedIsQueued, WakePopped
  <1>6. /\ \A u, w \in Thread : popped'[w] = u => ~ InQueue(u)'
        /\ \A v, w \in Thread : popped'[v] = popped'[w] /\ popped'[v] # None => v = w
    BY <1>3, <1>4, NoneAssumption DEF QueueInv, BlockedIsQueued
  <1>7. \A u \in Thread : u \in blocked' => pc'[u] = "wait"
    BY <1>1 DEF QueueInv, BlockedIsQueued, WakePopped, Goto
  <1>8. BlockedIsQueued'
    BY <1>5, <1>6, <1>7 DEF QueueInv, BlockedIsQueued, WakePopped
  <1>9. QueueType'
    BY DEF QueueInv, QueueType, WakePopped
  <1>10. /\ pc' = [u \in Thread |-> pc'[u]]
         /\ \A w \in Thread : popped'[w] # None <=> pc'[w] = "popped"
    BY <1>3 DEF QueueInv, WakePopped, Goto
  <1> QED BY <1>2, <1>8, <1>9, <1>10 DEF QueueInv
=============================================================================
