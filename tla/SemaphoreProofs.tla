--------------------------- MODULE SemaphoreProofs ---------------------------
(***************************************************************************)
(* Semaphore, for any finite number of threads and any initial count: the  *)
(* count never goes negative, no wake-up is lost, and the safety part of   *)
(* the implementation of ResourcePool.                                     *)
(***************************************************************************)
EXTENDS Semaphore, WaitQueueProofs, FiniteSetTheorems

(* The inductive invariant.                                                *)
SemInv == SemaphoreType /\ QueueInv /\ SemaphoreWakeup

(* Active is finite, so its cardinality counts.                            *)
LEMMA ActiveFinite == IsFiniteSet(Active) /\ Cardinality(Active) \in Nat
  BY FiniteAssumption, FS_Subset, FS_CardinalityType DEF Active

LEMMA ActiveFinite2 == IsFiniteSet(Active') /\ Cardinality(Active') \in Nat
  BY FiniteAssumption, FS_Subset, FS_CardinalityType DEF Active

(* semaphore_init establishes the invariant.                               *)
LEMMA InitInv == Init => SemInv
  BY NoneAssumption
     DEF Init, QueueInit, SemInv, SemaphoreType, QueueType, QueueInv, BlockedIsQueued,
         InQueue, SemaphoreWakeup, WaitPlaces

(* A thread enters semaphore_wait.                                         *)
LEMMA CallWaitInv ==
  ASSUME SemInv, NEW t \in Thread, CallWait(t)
  PROVE  SemInv'
  <1>1. t \notin blocked
    BY DEF SemInv, QueueInv, BlockedIsQueued, CallWait
  <1>2. QueueInv'
    BY <1>1, MoveInv DEF SemInv, CallWait
  <1>3. SemaphoreType'
    BY <1>2 DEF SemInv, QueueInv, SemaphoreType, CallWait, Goto
  <1>4. SemaphoreWakeup'
    <2>1. Active \subseteq Active'
      BY DEF SemInv, SemaphoreType, Active, CallWait, Goto, queueVars, Waking, Retrying
    <2>2. Cardinality(Active) <= Cardinality(Active')
      BY <2>1, ActiveFinite2, FS_Subset
    <2> QED BY <2>2, ActiveFinite, ActiveFinite2
            DEF SemInv, SemaphoreType, SemaphoreWakeup, CallWait, queueVars
  <1> QED BY <1>2, <1>3, <1>4 DEF SemInv

(* A unit is taken, or the thread goes to the wait queue.                  *)
LEMMA WaitTestInv ==
  ASSUME SemInv, NEW t \in Thread, WaitTest(t)
  PROVE  SemInv'
  <1>1. /\ pc[t] = "test" /\ UNCHANGED queueVars /\ count \in Nat
        /\ \/ count > 0 /\ count' = count - 1 /\ Goto(t, "outside")
           \/ count = 0 /\ count' = count /\ Goto(t, "wait")
    BY DEF WaitTest, SemInv, SemaphoreType
  <1>2. t \notin blocked
    BY <1>1 DEF SemInv, QueueInv, BlockedIsQueued
  <1>3. QueueInv'
    BY <1>1, <1>2, MoveInv DEF SemInv
  <1>4. SemaphoreType'
    BY <1>1, <1>3 DEF SemInv, QueueInv, SemaphoreType, Goto, WaitPlaces
  <1>5. SemaphoreWakeup'
    <2>1. CASE count = 0
      BY <1>1, <2>1, ActiveFinite2 DEF SemaphoreWakeup
    <2>2. CASE count > 0
      <3>1. t \in Active /\ Active' = Active \ {t}
        BY <1>1, <2>2 DEF SemInv, SemaphoreType, Active, Goto, queueVars, Waking, Retrying
      <3>2. Cardinality(Active') = Cardinality(Active) - 1
        BY <3>1, ActiveFinite, FS_RemoveElement
      <3> QED BY <1>1, <2>2, <3>2, ActiveFinite DEF SemInv, SemaphoreWakeup, queueVars
    <2> QED BY <1>1, <2>1, <2>2
  <1> QED BY <1>3, <1>4, <1>5 DEF SemInv

(* One turn of the loop of wait_queue_wait.                                *)
LEMMA WaitParkInv ==
  ASSUME SemInv, NEW t \in Thread, WaitPark(t)
  PROVE  SemInv'
  <1>1. /\ pc[t] = "wait" /\ t \notin blocked /\ UNCHANGED <<popped, count>> /\ count \in Nat
        /\ \/ count > 0 /\ Goto(t, "test") /\ UNCHANGED <<waiters, blocked>>
           \/ /\ count = 0 /\ waiters' = Append(waiters, t)
              /\ blocked' = blocked \cup {t} /\ UNCHANGED pc
    BY DEF WaitPark, Wait, SemInv, SemaphoreType
  <1>2. CASE count > 0
    <2>1. QueueInv'
      BY <1>1, <1>2, MoveInv DEF SemInv, queueVars
    <2>2. SemaphoreType'
      BY <1>1, <1>2, <2>1 DEF SemInv, QueueInv, SemaphoreType, Goto
    <2>3. Active' = Active
      BY <1>1, <1>2 DEF SemInv, SemaphoreType, Active, Goto, Waking, Retrying
    <2> QED BY <1>1, <1>2, <2>1, <2>2, <2>3 DEF SemInv, SemaphoreWakeup
  <1>3. CASE count = 0
    <2>1. QueueInv'
      BY <1>1, <1>3, ParkInv DEF SemInv
    <2>2. SemaphoreType'
      BY <1>1, <1>3, <2>1 DEF SemInv, QueueInv, SemaphoreType
    <2>3. SemaphoreWakeup'
      BY <1>1, <1>3, ActiveFinite2 DEF SemaphoreWakeup
    <2> QED BY <2>1, <2>2, <2>3 DEF SemInv
  <1> QED BY <1>1, <1>2, <1>3

(* A unit is taken without waiting.                                        *)
LEMMA TryWaitInv ==
  ASSUME SemInv, NEW t \in Thread, TryWait(t)
  PROVE  SemInv'
  <1>1. /\ count > 0 /\ count' = count - 1 /\ count \in Nat
        /\ UNCHANGED <<pc, waiters, blocked, popped>>
    BY DEF TryWait, queueVars, SemInv, SemaphoreType
  <1>2. QueueInv'
    BY <1>1 DEF SemInv, QueueInv, QueueType, BlockedIsQueued, InQueue
  <1>3. SemaphoreType'
    BY <1>1, <1>2 DEF SemInv, QueueInv, SemaphoreType
  <1>4. Active' = Active
    BY <1>1 DEF Active, Waking, Retrying
  <1>5. SemaphoreWakeup'
    BY <1>1, <1>4, ActiveFinite DEF SemInv, SemaphoreWakeup
  <1> QED BY <1>2, <1>3, <1>5 DEF SemInv

(* A signal adds a unit and a wake-up in progress.                         *)
LEMMA SignalInv ==
  ASSUME SemInv, NEW t \in Thread, Signal(t)
  PROVE  SemInv'
  <1>1. t \notin blocked
    BY DEF SemInv, QueueInv, BlockedIsQueued, Signal
  <1>2. QueueInv'
    BY <1>1, MoveInv DEF SemInv, Signal
  <1>3. SemaphoreType'
    BY <1>2 DEF SemInv, QueueInv, SemaphoreType, Signal, Goto, WaitPlaces
  <1>4. t \notin Active /\ Active' = Active \cup {t}
    BY DEF SemInv, SemaphoreType, Active, Signal, Goto, queueVars, Waking, Retrying
  <1>5. Cardinality(Active') = Cardinality(Active) + 1
    BY <1>4, ActiveFinite, FS_AddElement
  <1>6. SemaphoreWakeup'
    BY <1>5, ActiveFinite DEF SemInv, SemaphoreType, SemaphoreWakeup, Signal, queueVars
  <1> QED BY <1>2, <1>3, <1>6 DEF SemInv

(* The waker keeps the wake-up in its hands, or finds nobody to wake.      *)
LEMMA SignalPopInv ==
  ASSUME SemInv, NEW t \in Thread, SignalPop(t)
  PROVE  SemInv'
  <1>1. /\ pc[t] = "wake" /\ UNCHANGED <<blocked, count>>
        /\ \/ waiters = <<>> /\ Goto(t, "outside") /\ UNCHANGED <<waiters, popped>>
           \/ /\ waiters # <<>> /\ popped' = [popped EXCEPT ![t] = Head(waiters)]
              /\ waiters' = Tail(waiters) /\ Goto(t, "popped")
    BY DEF SignalPop, WakePop
  <1>2. t \notin blocked
    BY <1>1 DEF SemInv, QueueInv, BlockedIsQueued
  <1>3. QueueInv'
    <2>1. CASE waiters = <<>>
      BY <1>1, <1>2, <2>1, MoveInv DEF SemInv, queueVars
    <2>2. CASE waiters # <<>>
      BY <1>1, <2>2, PopInv DEF SemInv
    <2> QED BY <2>1, <2>2
  <1>4. SemaphoreType'
    BY <1>1, <1>3 DEF SemInv, QueueInv, SemaphoreType, Goto, WaitPlaces
  <1>5. CASE waiters = <<>>
    BY <1>1, <1>3, <1>4, <1>5 DEF SemInv, SemaphoreWakeup
  <1>6. CASE waiters # <<>>
    <2>1. Active' = Active
      BY <1>1, <1>6 DEF SemInv, SemaphoreType, Active, Goto, Waking, Retrying
    <2> QED BY <1>1, <1>3, <1>4, <1>6, <2>1 DEF SemInv, SemaphoreWakeup
  <1> QED BY <1>5, <1>6

(* The woken thread takes over from the waker.                             *)
LEMMA SignalWakeInv ==
  ASSUME SemInv, NEW t \in Thread, SignalWake(t)
  PROVE  SemInv'
  <1> DEFINE u == popped[t]
  <1>1. WakePopped(t, "outside") /\ count' = count /\ pc[t] = "popped"
    BY DEF SignalWake, WakePopped
  <1>2. QueueInv' /\ u \in blocked /\ pc[u] = "wait" /\ u # t
    BY <1>1, WakeInv DEF SemInv
  <1>3. SemaphoreType'
    BY <1>1, <1>2 DEF SemInv, QueueInv, SemaphoreType, WakePopped, Goto
  <1>4. /\ u \in Thread /\ t \in Active /\ u \notin Active \ {t}
        /\ Active' = (Active \ {t}) \cup {u}
    BY <1>1, <1>2 DEF SemInv, SemaphoreType, QueueType, Active, WakePopped, Goto, Waking, Retrying
  <1> HIDE DEF u
  <1>5. IsFiniteSet(Active \ {t}) /\ Cardinality(Active \ {t}) = Cardinality(Active) - 1
    BY <1>4, ActiveFinite, FS_RemoveElement
  <1>6. Cardinality((Active \ {t}) \cup {u}) = Cardinality(Active \ {t}) + 1
    BY <1>4, <1>5, FS_AddElement
  <1>7. Cardinality(Active') = Cardinality(Active)
    BY <1>4, <1>5, <1>6, ActiveFinite
  <1>8. SemaphoreWakeup'
    BY <1>1, <1>7 DEF SemInv, SemaphoreWakeup, WakePopped
  <1> QED BY <1>2, <1>3, <1>8 DEF SemInv

(* Every step preserves the invariant.                                     *)
LEMMA NextInv == SemInv /\ [Next]_vars => SemInv'
  <1> SUFFICES ASSUME SemInv, [Next]_vars PROVE SemInv'
    OBVIOUS
  <1>1. ASSUME NEW t \in Thread, ThreadStep(t) PROVE SemInv'
    BY <1>1, CallWaitInv, WaitTestInv, WaitParkInv, TryWaitInv, SignalInv,
       SignalPopInv, SignalWakeInv DEF ThreadStep
  <1>2. CASE UNCHANGED vars
    BY <1>2 DEF vars, queueVars, SemInv, SemaphoreType, QueueType, QueueInv,
                BlockedIsQueued, InQueue, SemaphoreWakeup, Active, Waking, Retrying
  <1> QED BY <1>1, <1>2 DEF Next

(* Types, queue links and the count of wake-ups hold in every execution.   *)
THEOREM Inductive == Spec => []SemInv
  BY InitInv, NextInv, PTL DEF Spec

(* In particular sem->count is never negative.                             *)
THEOREM TypeCorrect == Spec => []SemaphoreType
  BY Inductive, PTL DEF SemInv

(* While threads sleep, every available unit has a thread that is awake or *)
(* a wake-up in progress to claim it.                                      *)
THEOREM WakeupsNeverLost == Spec => []SemaphoreWakeup
  BY Inductive, PTL DEF SemInv

(* Every thread blocked in semaphore_wait stays reachable for a waker,     *)
(* exactly once, though several signals may overlap.                       *)
THEOREM AlwaysQueued == Spec => []BlockedIsQueued
  <1>1. SemInv => BlockedIsQueued
    BY DEF SemInv, QueueInv
  <1> QED BY <1>1, Inductive, PTL

(* The semaphore gives out no unit it does not have; every step is one     *)
(* step of the abstract pool or none.                                      *)
THEOREM ImplementsSafePool == Spec => Pool!Safe
  <1>1. Init => Pool!Init
    BY DEF Init, Pool!Init
  <1>2. SemInv /\ [Next]_vars => [Pool!Next]_(Pool!poolVars)
    <2> SUFFICES ASSUME SemInv, [Next]_vars PROVE [Pool!Next]_(Pool!poolVars)
      OBVIOUS
    <2> DEFINE W == {u \in Thread : pc[u] \in {"test", "wait"}}
               V == {u \in Thread : pc'[u] \in {"test", "wait"}}
    <2>1. ASSUME NEW t \in Thread, ThreadStep(t) PROVE [Pool!Next]_(Pool!poolVars)
      <3>1. CASE CallWait(t)
        <4>1. t \notin W /\ V = W \cup {t} /\ count' = count
          BY <3>1 DEF CallWait, Goto, SemInv, SemaphoreType
        <4> QED BY <4>1 DEF Pool!Next, Pool!Request
      <3>2. CASE WaitTest(t) /\ count > 0
        <4>1. t \in W /\ V = W \ {t} /\ count > 0 /\ count' = count - 1
          BY <3>2 DEF WaitTest, Goto, SemInv, SemaphoreType
        <4> QED BY <4>1 DEF Pool!Next, Pool!Grant
      <3>3. CASE TryWait(t)
        <4>1. t \notin W /\ V = W /\ count > 0 /\ count' = count - 1
          BY <3>3 DEF TryWait, SemInv, SemaphoreType
        <4> QED BY <4>1 DEF Pool!Next, Pool!TryGrant
      <3>4. CASE Signal(t)
        <4>1. t \notin W /\ V = W /\ count' = count + 1
          BY <3>4 DEF Signal, Goto, SemInv, SemaphoreType
        <4> QED BY <4>1 DEF Pool!Next, Pool!Release
      <3>5. CASE \/ (WaitTest(t) /\ ~ (count > 0)) \/ WaitPark(t)
                 \/ SignalPop(t) \/ SignalWake(t)
        <4>1. V = W /\ count' = count
          BY <3>5 DEF WaitTest, WaitPark, Wait, SignalPop, WakePop, SignalWake, WakePopped,
                      Goto, SemInv, SemaphoreType
        <4> QED BY <4>1 DEF Pool!poolVars
      <3> QED BY <2>1, <3>1, <3>2, <3>3, <3>4, <3>5 DEF ThreadStep
    <2>2. CASE UNCHANGED vars
      BY <2>2 DEF vars, Pool!poolVars
    <2> QED BY <2>1, <2>2 DEF Next
  <1> QED BY <1>1, <1>2, Inductive, PTL DEF Spec, Pool!Safe
=============================================================================
