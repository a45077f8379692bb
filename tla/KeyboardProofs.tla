--------------------------- MODULE KeyboardProofs ---------------------------
(***************************************************************************)
(* Keyboard, for any finite number of readers and any size of the ring:    *)
(* the ring is the queue of what was typed and not read, no wake-up is     *)
(* lost, and the safety part of the implementation of ResourcePool.        *)
(***************************************************************************)
EXTENDS Keyboard, WaitQueueProofs, FiniteSetTheorems

(* The inductive invariant.                                                *)
KeyInv == TypeOK /\ QueueInv /\ RingIsQueue /\ NoLostWakeup

(* Active is finite, so its cardinality counts.                            *)
LEMMA ActiveFinite == IsFiniteSet(Active) /\ Cardinality(Active) \in Nat
  BY FiniteAssumption, FS_Subset, FS_CardinalityType DEF Active

LEMMA ActiveFinite2 == IsFiniteSet(Active') /\ Cardinality(Active') \in Nat
  BY FiniteAssumption, FS_Subset, FS_CardinalityType DEF Active

(* Index arithmetic of the ring: one round at most.                        *)
LEMMA Wrap ==
  ASSUME NEW h \in 0..(RingSize - 1), NEW k \in 0..RingSize
  PROVE  (h + k) % RingSize = IF h + k < RingSize THEN h + k ELSE h + k - RingSize
  BY KeyboardAssumption

(* keyboard_init establishes the invariant.                                *)
LEMMA InitInv == Init => KeyInv
  <1> SUFFICES ASSUME Init PROVE KeyInv
    OBVIOUS
  <1>1. QueueInv /\ NoLostWakeup
    BY NoneAssumption
       DEF Init, QueueInit, QueueType, QueueInv, BlockedIsQueued, InQueue, NoLostWakeup
  <1>2. TypeOK
    <2>1. RingSize \in Nat /\ RingSize > 0 /\ BufferSize \in Nat /\ BufferSize > 0
      BY KeyboardAssumption
    <2>2. QueueType
      BY <1>1 DEF QueueInv
    <2>3. pending \in Seq(Chars) /\ ring \in [0..(RingSize - 1) -> Chars \cup {None}]
      BY DEF Init
    <2>4. /\ head \in 0..(RingSize - 1) /\ tail \in 0..(RingSize - 1) /\ count \in 0..RingSize
          /\ length \in [Thread -> 0..(BufferSize - 1)]
      BY <2>1 DEF Init
    <2>5. pc \in [Thread -> WaitPlaces \cup {"outside", "pop", "edit"}]
      BY DEF Init
    <2>6. shift_down \in BOOLEAN /\ caps_lock \in BOOLEAN /\ got \in [Thread -> Chars \cup {None}]
      BY DEF Init
    <2> QED BY <2>2, <2>3, <2>4, <2>5, <2>6 DEF TypeOK
  <1>3. RingIsQueue
    BY KeyboardAssumption, Wrap DEF Init, RingIsQueue
  <1> QED BY <1>1, <1>2, <1>3 DEF KeyInv

-----------------------------------------------------------------------------
(* What the ring operations do to the ring.                                *)
RingType ==
  /\ ring \in [0..(RingSize - 1) -> Chars \cup {None}]
  /\ head \in 0..(RingSize - 1) /\ tail \in 0..(RingSize - 1)
  /\ count \in 0..RingSize
  /\ pending \in Seq(Chars)

(* keyboard_ring_push: the new character is the last of the queue and      *)
(* overwrites none of the others.                                          *)
LEMMA PushRing ==
  ASSUME RingType, RingIsQueue, NEW ch \in Chars, ring_push(ch)
  PROVE  RingType' /\ RingIsQueue' /\ count' = count + 1
  <1>1. /\ count < RingSize /\ count' = count + 1
        /\ ring' = [ring EXCEPT ![tail] = ch]
        /\ tail' = (tail + 1) % RingSize /\ head' = head
        /\ pending' = Append(pending, ch)
    BY DEF ring_push
  <1>2. RingSize \in Nat /\ RingSize > 0
    BY KeyboardAssumption
  <1>3. /\ pending' \in Seq(Chars) /\ Len(pending) \in Nat /\ Len(pending') = Len(pending) + 1
        /\ \A i \in 1..Len(pending) : pending'[i] = pending[i]
        /\ pending'[Len(pending) + 1] = ch
    BY <1>1 DEF RingType
  <1>4. /\ tail = (head + count) % RingSize /\ count = Len(pending)
        /\ \A i \in 1..Len(pending) : ring[(head + i - 1) % RingSize] = pending[i]
    BY DEF RingIsQueue
  <1>5. RingType'
    BY <1>1, <1>2, <1>3 DEF RingType
  <1>6. tail' = (head' + count') % RingSize
    <2>1. tail = IF head + count < RingSize THEN head + count ELSE head + count - RingSize
      BY <1>4, Wrap DEF RingType
    <2>2. tail' = IF tail + 1 < RingSize THEN tail + 1 ELSE tail + 1 - RingSize
      <3>1. 1 \in 0..RingSize
        BY <1>2
      <3> QED BY <1>1, <3>1, Wrap DEF RingType
    <2>3. (head + (count + 1)) % RingSize =
            IF head + (count + 1) < RingSize THEN head + (count + 1)
            ELSE head + (count + 1) - RingSize
      <3>1. count + 1 \in 0..RingSize
        BY <1>1, <1>2 DEF RingType
      <3> QED BY <3>1, Wrap DEF RingType
    <2> QED BY <1>1, <1>2, <2>1, <2>2, <2>3 DEF RingType
  <1>7. ASSUME NEW i \in 1..Len(pending') PROVE ring'[(head' + i - 1) % RingSize] = pending'[i]
    <2> DEFINE at == (head + i - 1) % RingSize
    <2>1. i - 1 \in 0..RingSize /\ i - 1 < RingSize /\ head + i - 1 = head + (i - 1)
      BY <1>1, <1>2, <1>3, <1>4 DEF RingType
    <2>2. at = IF head + (i - 1) < RingSize THEN head + (i - 1) ELSE head + (i - 1) - RingSize
      BY <2>1, Wrap DEF RingType
    <2>3. at \in 0..(RingSize - 1)
      BY <1>2, <2>1, <2>2 DEF RingType
    <2> HIDE DEF at
    <2>4. CASE i = Len(pending) + 1
      <3>1. at = tail
        BY <1>4, <2>1, <2>4 DEF at, RingType
      <3> QED BY <1>1, <1>3, <2>3, <2>4, <3>1 DEF RingType, at
    <2>5. CASE i \in 1..Len(pending)
      <3>1. tail = IF head + count < RingSize THEN head + count ELSE head + count - RingSize
        BY <1>4, Wrap DEF RingType
      <3>2. at # tail
        <4>1. /\ head \in 0..(RingSize - 1) /\ count \in Nat /\ count < RingSize
              /\ i - 1 \in Nat /\ i - 1 < count
          BY <1>1, <1>4, <2>1, <2>5 DEF RingType
        <4> QED BY <1>2, <4>1, <2>2, <3>1
      <3>3. ring'[at] = ring[at]
        BY <1>1, <2>3, <3>2 DEF RingType
      <3> QED BY <1>1, <1>3, <1>4, <2>5, <3>3 DEF at
    <2> QED BY <1>3, <2>4, <2>5
  <1> QED BY <1>1, <1>3, <1>4, <1>5, <1>6, <1>7 DEF RingIsQueue

(* The head index moves on: the first character leaves the queue.          *)
LEMMA PopRing ==
  ASSUME RingType, RingIsQueue, count > 0, head' = (head + 1) % RingSize,
         count' = count - 1, pending' = Tail(pending), UNCHANGED <<ring, tail>>
  PROVE  RingType' /\ RingIsQueue' /\ count' = count - 1
  <1>1. RingSize \in Nat /\ RingSize > 0
    BY KeyboardAssumption
  <1>2. /\ tail = (head + count) % RingSize /\ count = Len(pending)
        /\ \A i \in 1..Len(pending) : ring[(head + i - 1) % RingSize] = pending[i]
    BY DEF RingIsQueue
  <1>3. /\ pending' \in Seq(Chars) /\ Len(pending) \in Nat /\ Len(pending') = Len(pending) - 1
        /\ \A i \in 1..(Len(pending) - 1) : pending'[i] = pending[i + 1]
    BY <1>2 DEF RingType
  <1>4. head' = IF head + 1 < RingSize THEN head + 1 ELSE head + 1 - RingSize
    BY <1>1, Wrap DEF RingType
  <1>5. RingType'
    BY <1>1, <1>3, <1>4 DEF RingType
  <1>6. ASSUME NEW i \in 0..count'
        PROVE  (head' + i) % RingSize = (head + (i + 1)) % RingSize
    <2>1. i \in 0..RingSize /\ i + 1 \in 0..RingSize /\ head' \in 0..(RingSize - 1)
      BY <1>1, <1>4, <1>5 DEF RingType
    <2>2. (head' + i) % RingSize = IF head' + i < RingSize THEN head' + i ELSE head' + i - RingSize
      BY <2>1, Wrap
    <2>3. (head + (i + 1)) % RingSize =
            IF head + (i + 1) < RingSize THEN head + (i + 1) ELSE head + (i + 1) - RingSize
      BY <2>1, Wrap DEF RingType
    <2> QED BY <1>1, <1>4, <2>1, <2>2, <2>3 DEF RingType
  <1>7. tail' = (head' + count') % RingSize
    <2>1. count' \in 0..count' /\ count' + 1 = count
      BY DEF RingType
    <2> QED BY <1>2, <1>6, <2>1
  <1>8. ASSUME NEW i \in 1..Len(pending') PROVE ring'[(head' + i - 1) % RingSize] = pending'[i]
    <2>1. /\ i - 1 \in 0..count' /\ i + 1 \in 1..Len(pending) /\ i \in 1..(Len(pending) - 1)
          /\ head' + i - 1 = head' + (i - 1) /\ head + ((i - 1) + 1) = head + (i + 1) - 1
      BY <1>2, <1>3, <1>5 DEF RingType
    <2>2. (head' + i - 1) % RingSize = (head + (i + 1) - 1) % RingSize
      BY <1>6, <2>1
    <2> QED BY <1>2, <1>3, <2>1, <2>2
  <1> QED BY <1>2, <1>3, <1>5, <1>7, <1>8 DEF RingIsQueue

(* Nothing happens to the ring.                                            *)
LEMMA SameRing ==
  ASSUME RingType, RingIsQueue, UNCHANGED ringVars
  PROVE  RingType' /\ RingIsQueue' /\ count' = count
  BY DEF RingType, RingIsQueue, ringVars

-----------------------------------------------------------------------------
(* TypeOK in its parts.                                                    *)
LineType ==
  /\ pc \in [Thread -> WaitPlaces \cup {"outside", "pop", "edit"}]
  /\ shift_down \in BOOLEAN /\ caps_lock \in BOOLEAN
  /\ got \in [Thread -> Chars \cup {None}]
  /\ length \in [Thread -> 0..(BufferSize - 1)]

LEMMA TypeParts == TypeOK <=> QueueType /\ RingType /\ LineType
  BY DEF TypeOK, RingType, LineType

LEMMA TypeParts2 == TypeOK' <=> QueueType' /\ RingType' /\ LineType'
  BY DEF TypeOK, RingType, LineType

(* A key gives a character.                                                *)
LEMMA TranslateType ==
  ASSUME NEW key \in Keys
  PROVE  key \in Chars /\ translate(key) \in Chars
  BY KeyboardAssumption DEF translate, Chars

(* A modifier key touches nothing else.                                    *)
LEMMA ModifierInv ==
  ASSUME KeyInv, ModifierIrq
  PROVE  KeyInv'
  <1>1. RingType' /\ RingIsQueue' /\ count' = count
    BY SameRing, TypeParts DEF KeyInv, ModifierIrq
  <1>2. UNCHANGED <<pc, waiters, blocked, popped>>
    BY DEF ModifierIrq, queueVars
  <1>3. QueueInv'
    BY <1>2 DEF KeyInv, QueueInv, QueueType, BlockedIsQueued, InQueue
  <1>4. LineType'
    BY TypeParts DEF KeyInv, ModifierIrq, LineType, lineVars
  <1>5. NoLostWakeup'
    BY <1>1, <1>2 DEF KeyInv, NoLostWakeup, Active, Waking, Retrying
  <1> QED BY <1>1, <1>3, <1>4, <1>5, TypeParts2 DEF KeyInv, QueueInv

(* keyboard_deliver_char in the interrupt handler: the first sleeper is    *)
(* unlinked and woken in one step.                                         *)
LEMMA KeyIrqInv ==
  ASSUME KeyInv, NEW key \in Keys, KeyIrq(key)
  PROVE  KeyInv'
  <1>1. RingType' /\ RingIsQueue' /\ count' = count + 1
    BY PushRing, TranslateType, TypeParts DEF KeyInv, KeyIrq
  <1>2. LineType' /\ UNCHANGED <<pc, popped>>
    BY TypeParts DEF KeyInv, KeyIrq, LineType, lineVars, modVars
  <1>3. CASE waiters = <<>>
    <2>1. UNCHANGED <<waiters, blocked>>
      BY <1>3 DEF KeyIrq
    <2>2. QueueInv'
      BY <1>2, <2>1 DEF KeyInv, QueueInv, QueueType, BlockedIsQueued, InQueue
    <2> QED BY <1>1, <1>2, <1>3, <2>1, <2>2, TypeParts2 DEF KeyInv, QueueInv, NoLostWakeup
  <1>4. CASE waiters # <<>>
    <2> DEFINE u == Head(waiters)
    <2>1. waiters' = Tail(waiters) /\ blocked' = blocked \ {u}
      BY <1>4 DEF KeyIrq
    <2>2. QueueInv' /\ u \in Thread /\ u \in blocked /\ pc[u] = "wait"
      BY <1>2, <1>4, <2>1, PopWakeInv DEF KeyInv
    <2>3. u \notin Active /\ Active' = Active \cup {u}
      BY <1>2, <2>1, <2>2 DEF Active, Waking, Retrying
    <2> HIDE DEF u
    <2>4. Cardinality(Active') = Cardinality(Active) + 1
      BY <2>3, ActiveFinite, FS_AddElement
    <2>5. NoLostWakeup'
      BY <1>1, <1>4, <2>4, ActiveFinite, TypeParts DEF KeyInv, NoLostWakeup, RingType
    <2> QED BY <1>1, <1>2, <2>2, <2>5, TypeParts2 DEF KeyInv, QueueInv
  <1> QED BY <1>3, <1>4

(* keyboard_debug_inject_char adds a character and a wake-up in progress.  *)
LEMMA InjectInv ==
  ASSUME KeyInv, NEW t \in Thread, NEW key \in Keys, Inject(t, key)
  PROVE  KeyInv'
  <1>1. RingType' /\ RingIsQueue' /\ count' = count + 1
    BY PushRing, TranslateType, TypeParts DEF KeyInv, Inject
  <1>2. LineType'
    BY TypeParts DEF KeyInv, Inject, LineType, lineVars, modVars, Goto, WaitPlaces
  <1>3. t \notin blocked /\ pc[t] = "outside"
    BY DEF KeyInv, QueueInv, BlockedIsQueued, Inject
  <1>4. QueueInv'
    BY <1>3, MoveInv DEF KeyInv, Inject
  <1>5. t \notin Active /\ Active' = Active \cup {t}
    BY <1>3, TypeParts DEF KeyInv, LineType, Active, Inject, Goto, queueVars, Waking, Retrying
  <1>6. Cardinality(Active') = Cardinality(Active) + 1
    BY <1>5, ActiveFinite, FS_AddElement
  <1>7. NoLostWakeup'
    BY <1>1, <1>6, ActiveFinite, TypeParts DEF KeyInv, NoLostWakeup, RingType, Inject, queueVars
  <1> QED BY <1>1, <1>2, <1>4, <1>7, TypeParts2 DEF KeyInv, QueueInv

(* The waker keeps the wake-up in its hands, or finds nobody to wake.      *)
LEMMA InjectPopInv ==
  ASSUME KeyInv, NEW t \in Thread, InjectPop(t)
  PROVE  KeyInv'
  <1>1. /\ pc[t] = "wake" /\ UNCHANGED blocked
        /\ \/ waiters = <<>> /\ Goto(t, "outside") /\ UNCHANGED <<waiters, popped>>
           \/ /\ waiters # <<>> /\ popped' = [popped EXCEPT ![t] = Head(waiters)]
              /\ waiters' = Tail(waiters) /\ Goto(t, "popped")
    BY DEF InjectPop, WakePop
  <1>2. t \notin blocked
    BY <1>1 DEF KeyInv, QueueInv, BlockedIsQueued
  <1>3. RingType' /\ RingIsQueue' /\ count' = count
    BY SameRing, TypeParts DEF KeyInv, InjectPop
  <1>4. LineType'
    BY <1>1, TypeParts DEF KeyInv, InjectPop, LineType, lineVars, modVars, Goto, WaitPlaces
  <1>5. CASE waiters = <<>>
    <2>1. QueueInv'
      BY <1>1, <1>2, <1>5, MoveInv DEF KeyInv, queueVars
    <2> QED BY <1>1, <1>3, <1>4, <1>5, <2>1, TypeParts2 DEF KeyInv, QueueInv, NoLostWakeup
  <1>6. CASE waiters # <<>>
    <2>1. QueueInv'
      BY <1>1, <1>6, PopInv DEF KeyInv
    <2>2. Active' = Active
      BY <1>1, <1>6, TypeParts DEF KeyInv, LineType, Active, Goto, Waking, Retrying
    <2>3. NoLostWakeup'
      BY <1>1, <1>3, <1>6, <2>2 DEF KeyInv, NoLostWakeup
    <2> QED BY <1>3, <1>4, <2>1, <2>3, TypeParts2 DEF KeyInv, QueueInv
  <1> QED BY <1>5, <1>6

(* The woken reader takes over from the waker.                             *)
LEMMA InjectWakeInv ==
  ASSUME KeyInv, NEW t \in Thread, InjectWake(t)
  PROVE  KeyInv'
  <1> DEFINE u == popped[t]
  <1>1. WakePopped(t, "outside") /\ pc[t] = "popped"
    BY DEF InjectWake, WakePopped
  <1>2. QueueInv' /\ u \in blocked /\ pc[u] = "wait" /\ u # t
    BY <1>1, WakeInv DEF KeyInv
  <1>3. RingType' /\ RingIsQueue' /\ count' = count
    BY SameRing, TypeParts DEF KeyInv, InjectWake
  <1>4. LineType'
    BY <1>1, TypeParts DEF KeyInv, InjectWake, LineType, lineVars, modVars, WakePopped, Goto
  <1>5. /\ u \in Thread /\ t \in Active /\ u \notin Active \ {t}
        /\ Active' = (Active \ {t}) \cup {u}
    BY <1>1, <1>2, TypeParts
       DEF KeyInv, LineType, QueueType, Active, WakePopped, Goto, Waking, Retrying
  <1> HIDE DEF u
  <1>6. IsFiniteSet(Active \ {t}) /\ Cardinality(Active \ {t}) = Cardinality(Active) - 1
    BY <1>5, ActiveFinite, FS_RemoveElement
  <1>7. Cardinality((Active \ {t}) \cup {u}) = Cardinality(Active \ {t}) + 1
    BY <1>5, <1>6, FS_AddElement
  <1>8. Cardinality(Active') = Cardinality(Active)
    BY <1>5, <1>6, <1>7, ActiveFinite
  <1>9. NoLostWakeup'
    BY <1>1, <1>3, <1>8 DEF KeyInv, NoLostWakeup, WakePopped
  <1> QED BY <1>2, <1>3, <1>4, <1>9, TypeParts2 DEF KeyInv, QueueInv

-----------------------------------------------------------------------------
(* terminal_readline is called: one more reader looks at the ring.         *)
LEMMA CallReadlineInv ==
  ASSUME KeyInv, NEW t \in Thread, CallReadline(t)
  PROVE  KeyInv'
  <1>1. RingType' /\ RingIsQueue' /\ count' = count
    BY SameRing, TypeParts DEF KeyInv, CallReadline
  <1>2. LineType'
    BY TypeParts, KeyboardAssumption DEF KeyInv, CallReadline, LineType, modVars, Goto, WaitPlaces
  <1>3. t \notin blocked /\ pc[t] = "outside"
    BY DEF KeyInv, QueueInv, BlockedIsQueued, CallReadline
  <1>4. QueueInv'
    BY <1>3, MoveInv DEF KeyInv, CallReadline
  <1>5. Active \subseteq Active'
    BY <1>3, TypeParts DEF KeyInv, LineType, Active, CallReadline, Goto, queueVars, Waking, Retrying
  <1>6. Cardinality(Active) <= Cardinality(Active')
    BY <1>5, ActiveFinite2, FS_Subset
  <1>7. NoLostWakeup'
    BY <1>1, <1>6, ActiveFinite, ActiveFinite2, TypeParts
       DEF KeyInv, NoLostWakeup, RingType, CallReadline, queueVars
  <1> QED BY <1>1, <1>2, <1>4, <1>7, TypeParts2 DEF KeyInv, QueueInv

(* One turn of the loop of wait_queue_wait: a reader parks only on an      *)
(* empty ring.                                                             *)
LEMMA GetcharWaitInv ==
  ASSUME KeyInv, NEW t \in Thread, GetcharWait(t)
  PROVE  KeyInv'
  <1>1. /\ pc[t] = "wait" /\ t \notin blocked /\ UNCHANGED popped
        /\ \/ count > 0 /\ Goto(t, "pop") /\ UNCHANGED <<waiters, blocked>>
           \/ /\ ~ (count > 0) /\ waiters' = Append(waiters, t)
              /\ blocked' = blocked \cup {t} /\ UNCHANGED pc
    BY DEF GetcharWait, Wait
  <1>2. RingType' /\ RingIsQueue' /\ count' = count
    BY SameRing, TypeParts DEF KeyInv, GetcharWait
  <1>3. LineType'
    BY <1>1, TypeParts DEF KeyInv, GetcharWait, LineType, lineVars, modVars, Goto
  <1>4. CASE count > 0
    <2>1. QueueInv'
      BY <1>1, <1>4, MoveInv DEF KeyInv, queueVars
    <2>2. Active' = Active
      BY <1>1, <1>4, TypeParts DEF KeyInv, LineType, Active, Goto, Waking, Retrying
    <2>3. NoLostWakeup'
      BY <1>1, <1>2, <1>4, <2>2 DEF KeyInv, NoLostWakeup
    <2> QED BY <1>2, <1>3, <2>1, <2>3, TypeParts2 DEF KeyInv, QueueInv
  <1>5. CASE ~ (count > 0)
    <2>1. QueueInv'
      BY <1>1, <1>5, ParkInv DEF KeyInv
    <2>2. count' = 0
      BY <1>2, <1>5, TypeParts DEF KeyInv, RingType
    <2>3. NoLostWakeup'
      BY <2>2, ActiveFinite2 DEF NoLostWakeup
    <2> QED BY <1>2, <1>3, <2>1, <2>3, TypeParts2 DEF KeyInv, QueueInv
  <1> QED BY <1>4, <1>5

(* The pop: one character and one active reader less, or back to waiting.  *)
LEMMA GetcharPopInv ==
  ASSUME KeyInv, NEW t \in Thread, GetcharPop(t)
  PROVE  KeyInv'
  <1>1. pc[t] = "pop" /\ UNCHANGED <<waiters, blocked, popped, shift_down, caps_lock, length>>
    BY DEF GetcharPop, queueVars, modVars
  <1>2. t \notin blocked
    BY <1>1 DEF KeyInv, QueueInv, BlockedIsQueued
  <1>3. CASE ring_pop(t) /\ Goto(t, "edit")
    <2>1. RingType' /\ RingIsQueue' /\ count' = count - 1 /\ count > 0
      BY <1>3, PopRing, TypeParts DEF KeyInv, ring_pop
    <2>2. ring[head] \in Chars \cup {None}
      BY TypeParts DEF KeyInv, RingType
    <2>3. LineType'
      BY <1>1, <1>3, <2>2, TypeParts DEF KeyInv, LineType, ring_pop, Goto
    <2>4. QueueInv'
      BY <1>1, <1>2, <1>3, MoveInv DEF KeyInv, queueVars
    <2>5. t \in Active /\ Active' = Active \ {t}
      BY <1>1, <1>3, TypeParts DEF KeyInv, LineType, Active, Goto, Waking, Retrying
    <2>6. Cardinality(Active') = Cardinality(Active) - 1
      BY <2>5, ActiveFinite, FS_RemoveElement
    <2>7. NoLostWakeup'
      BY <1>1, <2>1, <2>6, ActiveFinite, TypeParts DEF KeyInv, RingType, NoLostWakeup
    <2> QED BY <2>1, <2>3, <2>4, <2>7, TypeParts2 DEF KeyInv, QueueInv
  <1>4. CASE count = 0 /\ Goto(t, "wait") /\ UNCHANGED <<ringVars, got>>
    <2>1. RingType' /\ RingIsQueue' /\ count' = 0
      BY <1>4, SameRing, TypeParts DEF KeyInv
    <2>2. LineType'
      BY <1>1, <1>4, TypeParts DEF KeyInv, LineType, Goto, WaitPlaces
    <2>3. QueueInv'
      BY <1>1, <1>2, <1>4, MoveInv DEF KeyInv, queueVars
    <2>4. NoLostWakeup'
      BY <2>1, ActiveFinite2 DEF NoLostWakeup
    <2> QED BY <2>1, <2>2, <2>3, <2>4, TypeParts2 DEF KeyInv, QueueInv
  <1> QED BY <1>3, <1>4 DEF GetcharPop

(* The line discipline: the line with its final zero stays inside the      *)
(* buffer of the caller.                                                   *)
LEMMA EditInv ==
  ASSUME KeyInv, NEW t \in Thread, Edit(t)
  PROVE  KeyInv'
  <1>1. RingType' /\ RingIsQueue' /\ count' = count
    BY SameRing, TypeParts DEF KeyInv, Edit
  <1>2. PICK place \in {"outside", "wait"} : Goto(t, place)
    BY DEF Edit
  <1>3. pc[t] = "edit" /\ UNCHANGED <<waiters, blocked, popped, shift_down, caps_lock>>
    BY DEF Edit, queueVars, modVars
  <1>4. length' \in [Thread -> 0..(BufferSize - 1)]
    <2>1. length \in [Thread -> 0..(BufferSize - 1)] /\ BufferSize \in Nat \ {0}
      BY TypeParts, KeyboardAssumption DEF KeyInv, LineType
    <2> QED BY <2>1 DEF Edit
  <1>5. LineType'
    BY <1>2, <1>3, <1>4, TypeParts DEF KeyInv, LineType, Edit, Goto, WaitPlaces
  <1>6. t \notin blocked
    BY <1>3 DEF KeyInv, QueueInv, BlockedIsQueued
  <1>7. QueueInv'
    BY <1>2, <1>3, <1>6, MoveInv DEF KeyInv, queueVars
  <1>8. Active \subseteq Active'
    BY <1>2, <1>3, TypeParts DEF KeyInv, LineType, Active, Goto, Waking, Retrying
  <1>9. Cardinality(Active) <= Cardinality(Active')
    BY <1>8, ActiveFinite2, FS_Subset
  <1>10. NoLostWakeup'
    BY <1>1, <1>3, <1>9, ActiveFinite, ActiveFinite2, TypeParts DEF KeyInv, NoLostWakeup, RingType
  <1> QED BY <1>1, <1>5, <1>7, <1>10, TypeParts2 DEF KeyInv, QueueInv

(* keyboard_try_getchar takes a character from nobody in particular.       *)
LEMMA TryGetcharInv ==
  ASSUME KeyInv, NEW t \in Thread, TryGetchar(t)
  PROVE  KeyInv'
  <1>1. RingType' /\ RingIsQueue' /\ count' = count - 1
    BY PopRing, TypeParts DEF KeyInv, TryGetchar
  <1>2. UNCHANGED <<pc, waiters, blocked, popped>>
    BY DEF TryGetchar, queueVars
  <1>3. LineType'
    BY TypeParts DEF KeyInv, TryGetchar, LineType, lineVars, modVars
  <1>4. QueueInv'
    BY <1>2 DEF KeyInv, QueueInv, QueueType, BlockedIsQueued, InQueue
  <1>5. Active' = Active
    BY <1>2 DEF Active, Waking, Retrying
  <1>6. NoLostWakeup'
    BY <1>1, <1>2, <1>5, ActiveFinite, TypeParts DEF KeyInv, RingType, NoLostWakeup
  <1> QED BY <1>1, <1>3, <1>4, <1>6, TypeParts2 DEF KeyInv, QueueInv

(* Every step preserves the invariant.                                     *)
LEMMA NextInv == KeyInv /\ [Next]_vars => KeyInv'
  <1> SUFFICES ASSUME KeyInv, [Next]_vars PROVE KeyInv'
    OBVIOUS
  <1>1. ASSUME NEW t \in Thread, ThreadStep(t) PROVE KeyInv'
    BY <1>1, CallReadlineInv, GetcharWaitInv, GetcharPopInv, EditInv, TryGetcharInv,
       InjectInv, InjectPopInv, InjectWakeInv DEF ThreadStep
  <1>2. CASE UNCHANGED vars
    <2>1. RingType' /\ RingIsQueue' /\ count' = count
      BY <1>2, SameRing, TypeParts DEF KeyInv, vars
    <2>2. LineType' /\ QueueInv'
      BY <1>2, TypeParts DEF KeyInv, vars, queueVars, modVars, lineVars, LineType,
                             QueueInv, QueueType, BlockedIsQueued, InQueue
    <2>3. NoLostWakeup'
      BY <1>2, <2>1 DEF KeyInv, vars, queueVars, NoLostWakeup, Active, Waking, Retrying
    <2> QED BY <2>1, <2>2, <2>3, TypeParts2 DEF KeyInv, QueueInv
  <1> QED BY <1>1, <1>2, KeyIrqInv, ModifierInv DEF Next

-----------------------------------------------------------------------------
(* Types, the links of the reader queue, the contents of the ring and the  *)
(* count of wake-ups hold in every execution.                              *)
THEOREM Inductive == Spec => []KeyInv
  BY InitInv, NextInv, PTL DEF Spec

(* The indices of keyboard.c stay inside the ring, and a line with its     *)
(* final zero inside the buffer given to terminal_readline.                *)
THEOREM TypeCorrect == Spec => []TypeOK
  BY Inductive, PTL DEF KeyInv

(* From keyboard_head on, the ring always holds the characters accepted    *)
(* and not read, in the order typed.                                       *)
THEOREM RingAlwaysQueue == Spec => []RingIsQueue
  BY Inductive, PTL DEF KeyInv

(* While readers sleep, every character in the ring has a reader that is   *)
(* awake or a wake-up in progress.                                         *)
THEOREM WakeupsNeverLost == Spec => []NoLostWakeup
  BY Inductive, PTL DEF KeyInv

(* The reader queue and the readers' states agree, interrupt handler       *)
(* included.                                                               *)
THEOREM QueueAlwaysLinked == Spec => []BlockedIsQueued
  <1>1. KeyInv => BlockedIsQueued
    BY DEF KeyInv, QueueInv
  <1> QED BY <1>1, Inductive, PTL

(* No character is handed out twice or out of nothing: every step is one   *)
(* step of the abstract pool or none.                                      *)
THEOREM ImplementsSafePool == Spec => Pool!Safe
  <1>1. Init => Pool!Init
    BY DEF Init, Pool!Init
  <1>2. KeyInv /\ [Next]_vars => [Pool!Next]_(Pool!poolVars)
    <2> SUFFICES ASSUME KeyInv, [Next]_vars PROVE [Pool!Next]_(Pool!poolVars)
      OBVIOUS
    <2> DEFINE W == {u \in Thread : pc[u] \in {"wait", "pop"}}
               V == {u \in Thread : pc'[u] \in {"wait", "pop"}}
    <2>0. pc \in [Thread -> WaitPlaces \cup {"outside", "pop", "edit"}] /\ None \notin W
      BY NoneAssumption, TypeParts DEF KeyInv, LineType
    <2>1. ASSUME NEW t \in Thread, ThreadStep(t) PROVE [Pool!Next]_(Pool!poolVars)
      <3>1. CASE CallReadline(t) \/ (Edit(t) /\ pc'[t] = "wait")
        <4>1. count' = count /\ pc[t] \in {"outside", "edit"} /\ Goto(t, "wait")
          BY <2>0, <3>1 DEF CallReadline, Edit, Goto, ringVars
        <4>2. t \notin W /\ V = W \cup {t}
          BY <2>0, <4>1 DEF Goto
        <4> QED BY <4>1, <4>2 DEF Pool!Next, Pool!Request
      <3>2. CASE GetcharPop(t) /\ count > 0
        <4>1. count > 0 /\ count' = count - 1 /\ pc[t] = "pop" /\ Goto(t, "edit")
          BY <3>2 DEF GetcharPop, ring_pop
        <4>2. t \in W /\ V = W \ {t}
          BY <2>0, <4>1 DEF Goto
        <4> QED BY <4>1, <4>2 DEF Pool!Next, Pool!Grant
      <3>3. CASE TryGetchar(t)
        <4>1. t \notin W /\ V = W /\ count > 0 /\ count' = count - 1
          BY <3>3 DEF TryGetchar
        <4> QED BY <4>1 DEF Pool!Next, Pool!TryGrant
      <3>4. CASE \E key \in Keys : Inject(t, key)
        <4>1. count' = count + 1 /\ pc[t] = "outside" /\ Goto(t, "wake")
          BY <3>4 DEF Inject, ring_push
        <4>2. t \notin W /\ V = W
          BY <2>0, <4>1 DEF Goto
        <4> QED BY <4>1, <4>2 DEF Pool!Next, Pool!Release
      <3>5. CASE \/ Edit(t) /\ pc'[t] # "wait"
                 \/ GetcharWait(t)
                 \/ GetcharPop(t) /\ ~ (count > 0)
                 \/ InjectPop(t) \/ InjectWake(t)
        <4>1. count' = count
          BY <3>5 DEF Edit, GetcharWait, GetcharPop, ring_pop, InjectPop, InjectWake, ringVars
        <4>2. V = W
          BY <2>0, <3>5 DEF Edit, GetcharWait, Wait, GetcharPop, ring_pop, InjectPop, WakePop,
                            InjectWake, WakePopped, Goto
        <4> QED BY <4>1, <4>2 DEF Pool!poolVars
      <3> QED BY <2>1, <3>1, <3>2, <3>3, <3>4, <3>5 DEF ThreadStep
    <2>2. ASSUME NEW key \in Keys, KeyIrq(key) PROVE [Pool!Next]_(Pool!poolVars)
      <3>1. count' = count + 1 /\ V = W
        BY <2>2 DEF KeyIrq, ring_push
      <3> QED BY <2>0, <3>1 DEF Pool!Next, Pool!Release
    <2>3. CASE ModifierIrq \/ UNCHANGED vars
      BY <2>3 DEF ModifierIrq, vars, ringVars, Pool!poolVars
    <2> QED BY <2>1, <2>2, <2>3 DEF Next
  <1> QED BY <1>1, <1>2, Inductive, PTL DEF Spec, Pool!Safe
=============================================================================
