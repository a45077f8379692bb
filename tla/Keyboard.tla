------------------------------ MODULE Keyboard ------------------------------
(***************************************************************************)
(* The keyboard driver of drivers/input/keyboard.c and the line discipline *)
(* of kernel/terminal.c that reads from it: a ring of characters filled by *)
(* the interrupt handler and emptied by the threads in terminal_readline   *)
(* (the monitor and every process in SYS_READ).  Places of pc:             *)
(*   "outside"  not in a keyboard operation                                *)
(*   "pop"      back from wait_queue_wait in keyboard_getchar_blocking     *)
(*   "edit"     in terminal_readline with the character got                *)
(* and those of WaitQueue.  A character is known by what the line          *)
(* discipline and the modifiers tell apart.                                *)
(***************************************************************************)
EXTENDS WaitQueue

CONSTANTS
  Keys,          \* keys that are pressed: some of "letter", "sign", "enter",
                 \* "backspace", "tab"
  RingSize,      \* KEYBOARD_RING_SIZE
  BufferSize     \* buffer_size of terminal_readline

ASSUME KeyboardAssumption ==
  /\ RingSize \in Nat \ {0} /\ BufferSize \in Nat \ {0}
  /\ Keys \subseteq {"letter", "sign", "enter", "backspace", "tab"}

VARIABLES
  ring,          \* keyboard_ring
  head,          \* keyboard_head
  tail,          \* keyboard_tail
  count,         \* keyboard_count
  shift_down,    \* keyboard_shift_down
  caps_lock,     \* keyboard_caps_lock
  got,           \* the character a reader has popped
  length,        \* characters in the line a reader is editing
  pending        \* history: characters accepted and not read yet, in order

ringVars == <<ring, head, tail, count, pending>>
modVars == <<shift_down, caps_lock>>
lineVars == <<got, length>>
vars == <<pc, queueVars, ringVars, modVars, lineVars>>

Chars == {"letter", "LETTER", "sign", "SIGN", "enter", "backspace", "tab"}

(* Every variable has its type: the indices stay inside the ring, and the  *)
(* line with its terminating zero stays inside the caller's buffer.        *)
TypeOK ==
  /\ QueueType
  /\ pc \in [Thread -> WaitPlaces \cup {"outside", "pop", "edit"}]
  /\ ring \in [0..(RingSize - 1) -> Chars \cup {None}]
  /\ head \in 0..(RingSize - 1) /\ tail \in 0..(RingSize - 1)
  /\ count \in 0..RingSize
  /\ shift_down \in BOOLEAN /\ caps_lock \in BOOLEAN
  /\ got \in [Thread -> Chars \cup {None}]
  /\ length \in [Thread -> 0..(BufferSize - 1)]
  /\ pending \in Seq(Chars)

(* keyboard_init                                                           *)
Init ==
  /\ QueueInit
  /\ pc = [t \in Thread |-> "outside"]
  /\ ring = [i \in 0..(RingSize - 1) |-> None]
  /\ head = 0 /\ tail = 0 /\ count = 0
  /\ shift_down = FALSE /\ caps_lock = FALSE
  /\ got = [t \in Thread |-> None]
  /\ length = [t \in Thread |-> 0]
  /\ pending = <<>>

-----------------------------------------------------------------------------
(* keyboard_translate_scancode                                             *)
translate(key) ==
  CASE key = "letter" /\ shift_down # caps_lock -> "LETTER"
    [] key = "sign" /\ shift_down -> "SIGN"
    [] OTHER -> key

(* keyboard_ring_push when there is room.                                  *)
ring_push(ch) ==
  /\ count < RingSize
  /\ ring' = [ring EXCEPT ![tail] = ch]
  /\ tail' = (tail + 1) % RingSize
  /\ count' = count + 1
  /\ pending' = Append(pending, ch)
  /\ UNCHANGED head

\* Mutant of ring_pop: the head does not go round the end of the ring.
MutRingPop(t) ==
  /\ count > 0
  /\ got' = [got EXCEPT ![t] = ring[head]]
  /\ head' = IF head + 1 < RingSize THEN head + 1 ELSE head
  /\ count' = count - 1
  /\ pending' = Tail(pending)
  /\ UNCHANGED <<ring, tail>>

(* keyboard_ring_pop when there is a character.                            *)
ring_pop(t) ==
  /\ count > 0
  /\ got' = [got EXCEPT ![t] = ring[head]]
  /\ head' = (head + 1) % RingSize
  /\ count' = count - 1
  /\ pending' = Tail(pending)
  /\ UNCHANGED <<ring, tail>>

-----------------------------------------------------------------------------
(* IRQ 1 with a modifier: keyboard_handle_modifier.  There is one flag for *)
(* both shift keys.                                                        *)
ModifierIrq ==
  /\ \/ shift_down' \in BOOLEAN /\ UNCHANGED caps_lock
     \/ caps_lock' = ~ caps_lock /\ UNCHANGED shift_down
  /\ UNCHANGED <<pc, queueVars, ringVars, lineVars>>

\* Mutant of KeyIrq: a reader is woken only when the ring was empty.
MutKeyIrq(key) ==
  /\ ring_push(translate(key))
  /\ IF waiters = <<>> \/ count > 0 THEN UNCHANGED <<waiters, blocked>>
     ELSE /\ waiters' = Tail(waiters)
          /\ blocked' = blocked \ {Head(waiters)}
  /\ UNCHANGED <<pc, popped, modVars, lineVars>>

(* IRQ 1 with a key press: keyboard_deliver_char with interrupts disabled  *)
(* throughout, wait_queue_wake_one included.  With a full ring the         *)
(* character is dropped and nothing changes; releases are ignored.         *)
KeyIrq(key) ==
  /\ ring_push(translate(key))
  /\ IF waiters = <<>> THEN UNCHANGED <<waiters, blocked>>
     ELSE /\ waiters' = Tail(waiters)
          /\ blocked' = blocked \ {Head(waiters)}
  /\ UNCHANGED <<pc, popped, modVars, lineVars>>

(* keyboard_debug_inject_char: the same from a thread, where the wake-up   *)
(* is a critical section of its own.                                       *)
Inject(t, ch) ==
  /\ pc[t] = "outside"
  /\ ring_push(ch)
  /\ Goto(t, "wake")
  /\ UNCHANGED <<queueVars, modVars, lineVars>>

InjectPop(t) == WakePop(t, "outside") /\ UNCHANGED <<ringVars, modVars, lineVars>>
InjectWake(t) == WakePopped(t, "outside") /\ UNCHANGED <<ringVars, modVars, lineVars>>

-----------------------------------------------------------------------------
(* terminal_readline is called.                                            *)
CallReadline(t) ==
  /\ pc[t] = "outside"
  /\ length' = [length EXCEPT ![t] = 0]
  /\ Goto(t, "wait")
  /\ UNCHANGED <<queueVars, ringVars, modVars, got>>

(* keyboard_getchar_blocking: wait_queue_wait with keyboard_has_data ...   *)
GetcharWait(t) ==
  /\ Wait(t, count > 0, "pop")
  /\ UNCHANGED <<ringVars, modVars, lineVars>>

(* ... and the pop, which fails if another reader came first.              *)
GetcharPop(t) ==
  /\ pc[t] = "pop"
  /\ \/ ring_pop(t) /\ Goto(t, "edit")
     \/ count = 0 /\ Goto(t, "wait") /\ UNCHANGED <<ringVars, got>>
  /\ UNCHANGED <<queueVars, modVars, length>>

(* The rest of the loop of terminal_readline for the character got.        *)
Edit(t) ==
  /\ pc[t] = "edit"
  /\ \/ /\ got[t] = "enter"
        /\ Goto(t, "outside") /\ UNCHANGED length
     \/ /\ got[t] = "backspace"
        /\ length' = [length EXCEPT ![t] = IF @ > 0 THEN @ - 1 ELSE 0]
        /\ Goto(t, "wait")
     \/ /\ got[t] = "tab"   \* is not printable
        /\ Goto(t, "wait") /\ UNCHANGED length
     \/ /\ got[t] \notin {"enter", "backspace", "tab"}
        /\ length' = [length EXCEPT ![t] = IF @ + 1 < BufferSize THEN @ + 1 ELSE @]
        /\ Goto(t, "wait")
  /\ got' = [got EXCEPT ![t] = None]
  /\ UNCHANGED <<queueVars, ringVars, modVars>>

(* keyboard_try_getchar when there is a character; the caller has it.      *)
TryGetchar(t) ==
  /\ pc[t] = "outside"
  /\ count > 0
  /\ head' = (head + 1) % RingSize
  /\ count' = count - 1
  /\ pending' = Tail(pending)
  /\ UNCHANGED <<ring, tail, pc, queueVars, modVars, lineVars>>

ThreadStep(t) ==
  \/ CallReadline(t) \/ GetcharWait(t) \/ GetcharPop(t) \/ Edit(t) \/ TryGetchar(t)
  \/ \E key \in Keys : Inject(t, key)
  \/ InjectPop(t) \/ InjectWake(t)

Next ==
  \/ \E t \in Thread : ThreadStep(t)
  \/ \E key \in Keys : KeyIrq(key)
  \/ ModifierIrq

Spec == Init /\ [][Next]_vars

(* A thread inside an operation that is not blocked goes on; nothing is    *)
(* assumed of the keyboard's user.                                         *)
Fairness == \A t \in Thread :
  WF_vars(GetcharWait(t) \/ GetcharPop(t) \/ Edit(t)
          \/ InjectPop(t) \/ InjectWake(t))

FairSpec == Spec /\ Fairness

-----------------------------------------------------------------------------
(* The ring is a queue: from keyboard_head on it holds exactly the         *)
(* characters accepted and not yet read, in the order they were typed,     *)
(* whoever read the ones before; head, tail and count agree.               *)
RingIsQueue ==
  /\ count = Len(pending)
  /\ tail = (head + count) % RingSize
  /\ \A i \in 1..Len(pending) : ring[(head + i - 1) % RingSize] = pending[i]

(* No wake-up is lost: while readers sleep, there are at least as many     *)
(* threads about to wake one of them, or awake and about to look at the    *)
(* ring, as there are characters in it.                                    *)
Active == {t \in Thread : Waking(t) \/ Retrying(t, "pop")}

NoLostWakeup == waiters # <<>> => count <= Cardinality(Active)

(* The keyboard hands out characters as a pool hands out units: no         *)
(* character goes to two readers, and with FairSpec no character stays in  *)
(* the ring while somebody waits for one.  The interrupt handler, which    *)
(* belongs to no thread, releases units as None.                           *)
Pool == INSTANCE ResourcePool
          WITH Thread <- Thread \cup {None},
               InitAvailable <- {0},
               available <- count,
               wanting <- {t \in Thread : pc[t] \in {"wait", "pop"}}

ImplementsPool == Pool!Spec
=============================================================================
