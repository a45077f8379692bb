------------------------------ MODULE Scheduler ------------------------------
(***************************************************************************)
(* The thread scheduler of kernel/thread.c together with the timer         *)
(* interrupt path that drives it (arch/x86/pit.c, arch/x86/interrupts.c,   *)
(* the software interrupt 0x30 of thread_yield).                           *)
(*                                                                         *)
(* There is one CPU.  Code that runs with EFLAGS.IF clear (an interrupt    *)
(* handler, or between irq_save and irq_restore) is one action.  Every     *)
(* point where a thread runs kernel code with interrupts enabled and still *)
(* has something to do is a value of pc, so that the timer interrupt can   *)
(* strike there.  A thread's registers are abstracted to that position.    *)
(***************************************************************************)
EXTENDS Integers, Sequences, SequencesExt

CONSTANTS
  Thread,          \* thread objects thread_create may allocate from the heap
  Boot,            \* bootstrap_thread, the thread kernel_main runs on
  Idle,            \* idle_thread
  None,            \* the null thread pointer
  TickMod,         \* scheduler_ticks is an unsigned counter modulo TickMod
  SleepDurations,  \* arguments thread_sleep_ticks is called with
  TicksPerSlice    \* argument of thread_preemption_init

Threads == Thread \cup {Boot, Idle}

ASSUME ThreadAssumption ==
  /\ Boot \notin Thread /\ Idle \notin Thread /\ Boot # Idle
  /\ None \notin Threads

ASSUME TickAssumption ==
  /\ TickMod \in Nat /\ TickMod > 1
  /\ TicksPerSlice \in Nat /\ TicksPerSlice > 0
  /\ SleepDurations \subseteq 1..(TickMod - 1)

VARIABLES
  state,      \* thread->state; "FREE" is an object that is not allocated
  wake_tick,  \* thread->wake_tick
  pc,         \* where a thread is, or will resume
  iflag,      \* EFLAGS.IF of a thread, saved in its frame when it is switched out
  reaping,    \* the zombie a thread has popped and is about to free
  current,    \* current_thread
  ready,      \* the list from ready_head to ready_tail
  sleepers,   \* the list from sleep_head to sleep_tail
  zombies,    \* the list from zombie_head to zombie_tail
  ticks,      \* scheduler_ticks
  slice,      \* current_slice_ticks
  resched,    \* reschedule_requested
  preempt,    \* preemption_enabled, and the timer line unmasked
  due         \* history: ticks a sleeper has still to see, counted from its call

lists == <<ready, sleepers, zombies>>
clock == <<ticks, slice, resched, preempt>>
vars == <<state, wake_tick, pc, iflag, reaping, current, lists, clock, due>>

States == {"FREE", "NEW", "READY", "RUNNING", "BLOCKED", "SLEEPING", "ZOMBIE"}

(* "run": own code; "slept", "exited": between irq_restore and thread_yield *)
(* in thread_sleep_ticks and thread_exit; "blocked": between                *)
(* thread_block_current and thread_yield in wait_queue_wait, "resumed":     *)
(* back from that yield; "reaping": freeing a zombie.                       *)
Positions == {"run", "slept", "exited", "blocked", "resumed", "reaping"}

(* Every variable has its C type: scheduler_ticks and wake_tick stay below  *)
(* the width of the counter, the list heads link only thread objects.       *)
TypeOK ==
  /\ state \in [Threads -> States]
  /\ wake_tick \in [Threads -> 0..(TickMod - 1)]
  /\ pc \in [Threads -> Positions]
  /\ iflag \in [Threads -> BOOLEAN]
  /\ reaping \in [Threads -> Threads \cup {None}]
  /\ current \in Threads
  /\ ready \in Seq(Threads) /\ sleepers \in Seq(Threads) /\ zombies \in Seq(Threads)
  /\ ticks \in 0..(TickMod - 1)
  /\ slice \in Nat
  /\ resched \in BOOLEAN /\ preempt \in BOOLEAN
  /\ due \in [Threads -> Nat]

-----------------------------------------------------------------------------
(* Unsigned arithmetic modulo TickMod on operands below TickMod.           *)

\* Mutant of TickAdd: the counter does not wrap.
MutTickAdd(a, b) == a + b

TickAdd(a, b) == IF a + b < TickMod THEN a + b ELSE a + b - TickMod
TickSub(a, b) == IF b <= a THEN a - b ELSE a - b + TickMod

(* (int32_t)(now - target) >= 0: the sign bit of the difference is clear.  *)
tick_reached(now, target) == 2 * TickSub(now, target) < TickMod

\* Mutant of sleep_insert: append at the tail, not in wake order.
MutSleepInsert(t, w) == sleepers' = Append(sleepers, t)

(* sleep_insert walks past every sleeper that wakes strictly earlier: the  *)
(* list with t, due at tick w, at the position where the walk stops.       *)
sleep_insert(t, w) ==
  LET StopsAt(i) ==
        /\ \A j \in 1..(i - 1) : ~ tick_reached(wake_tick[sleepers[j]], w)
        /\ i <= Len(sleepers) => tick_reached(wake_tick[sleepers[i]], w)
  IN \E i \in 1..(Len(sleepers) + 1) :
       StopsAt(i) /\ sleepers' = InsertAt(sleepers, i, t)

(* wake_due_sleepers pops heads of the sleep list while they are due: the  *)
(* first n sleepers leave it at tick now.                                  *)
DueHeads(now, n) ==
  /\ \A i \in 1..n : tick_reached(now, wake_tick[sleepers[i]])
  /\ n < Len(sleepers) => ~ tick_reached(now, wake_tick[sleepers[n + 1]])

-----------------------------------------------------------------------------
\* Mutant of SliceUsed: the slice counter is reset at every tick.
MutSliceUsed(rq) == 0

(* Slice accounting of thread_on_timer_tick once the sleepers are woken.   *)
SliceUsed(rq) == IF rq = <<>> THEN 0 ELSE slice + 1

(* thread_schedule_from_interrupt, run with thread states st and ready     *)
(* list rq (the timer handler may already have changed both).              *)

SwitchTo(next, st, rq) ==
  /\ state' = [st EXCEPT ![next] = "RUNNING"]
  /\ ready' = rq
  /\ current' = next

\* Mutant of Schedule: the old thread is requeued without looking at its state.
MutRequeueAlways(st, rq) ==
  /\ slice' = 0
  /\ resched' = FALSE
  /\ CASE rq = <<>> /\ st[current] = "RUNNING" -> state' = st /\ ready' = rq /\ current' = current
       [] rq = <<>> /\ st[current] # "RUNNING" -> SwitchTo(Idle, st, rq)
       [] rq # <<>> -> SwitchTo(Head(rq), [st EXCEPT ![current] = "READY"], Append(Tail(rq), current))

\* Mutant of Schedule: the preempted thread is not requeued.
MutForgetOld(st, rq) ==
  /\ slice' = 0
  /\ resched' = FALSE
  /\ IF rq = <<>> THEN state' = st /\ ready' = rq /\ current' = current
     ELSE SwitchTo(Head(rq), st, Tail(rq))

Schedule(st, rq) ==
  LET runnable == current # Idle /\ st[current] = "RUNNING"
  IN /\ slice' = 0
     /\ resched' = FALSE
     /\ \/ /\ rq = <<>>
           /\ current = Idle \/ runnable
           /\ state' = st /\ ready' = rq /\ current' = current
        \/ /\ rq = <<>>
           /\ ~ (current = Idle \/ runnable)
           /\ SwitchTo(Idle, st, rq)
        \/ /\ rq # <<>>
           /\ IF runnable
              THEN SwitchTo(Head(rq), [st EXCEPT ![current] = "READY"],
                            Append(Tail(rq), current))
              ELSE SwitchTo(Head(rq), st, Tail(rq))

(* t runs its own code.  Only the idle thread is limited to reaping.       *)
InOwnCode(t) == current = t /\ pc[t] = "run"
InThreadCode(t) == InOwnCode(t) /\ t # Idle

-----------------------------------------------------------------------------
(* thread_create and thread_create_suspended: allocate, initialise, and    *)
(* enqueue when asked to.                                                  *)
ThreadCreate(t, u, enqueue) ==
  /\ InThreadCode(t)
  /\ u \in Thread /\ state[u] = "FREE"
  /\ wake_tick' = [wake_tick EXCEPT ![u] = 0]
  /\ pc' = [pc EXCEPT ![u] = "run"]
  /\ iflag' = [iflag EXCEPT ![u] = TRUE]
  /\ IF enqueue
     THEN state' = [state EXCEPT ![u] = "READY"] /\ ready' = Append(ready, u)
     ELSE state' = [state EXCEPT ![u] = "NEW"] /\ ready' = ready
  /\ UNCHANGED <<reaping, current, sleepers, zombies, clock, due>>

(* thread_start on a thread made by thread_create_suspended.               *)
ThreadStart(t, u) ==
  /\ InThreadCode(t)
  /\ u \in Thread /\ state[u] = "NEW"
  /\ state' = [state EXCEPT ![u] = "READY"]
  /\ ready' = Append(ready, u)
  /\ UNCHANGED <<wake_tick, pc, iflag, reaping, current, sleepers, zombies,
                 clock, due>>

(* thread_yield from a thread's own code.                                  *)
ThreadYield(t) ==
  /\ InThreadCode(t)
  /\ Schedule(state, ready)
  /\ UNCHANGED <<wake_tick, pc, iflag, reaping, sleepers, zombies, ticks,
                 preempt, due>>

(* thread_sleep_ticks up to its irq_restore; it panics when interrupts are *)
(* disabled, and for 0 ticks it is ThreadYield.                            *)
ThreadSleepTicks(t, d) ==
  LET w == TickAdd(ticks, d)
  IN /\ InThreadCode(t) /\ iflag[t] /\ preempt
     /\ wake_tick' = [wake_tick EXCEPT ![t] = w]
     /\ state' = [state EXCEPT ![t] = "SLEEPING"]
     /\ sleep_insert(t, w)
     /\ resched' = TRUE
     /\ pc' = [pc EXCEPT ![t] = "slept"]
     /\ due' = [due EXCEPT ![t] = d]
     /\ UNCHANGED <<iflag, reaping, current, ready, zombies, ticks, slice, preempt>>

(* the thread_yield that ends thread_sleep_ticks.                          *)
SleepYield(t) ==
  /\ current = t /\ pc[t] = "slept"
  /\ pc' = [pc EXCEPT ![t] = "run"]
  /\ Schedule(state, ready)
  /\ UNCHANGED <<wake_tick, iflag, reaping, sleepers, zombies, ticks, preempt, due>>

(* irq_save in wait_queue_wait and thread_block_current.                   *)
ThreadBlockCurrent(t) ==
  /\ InThreadCode(t) /\ preempt
  /\ state[t] = "RUNNING"
  /\ state' = [state EXCEPT ![t] = "BLOCKED"]
  /\ resched' = TRUE
  /\ pc' = [pc EXCEPT ![t] = "blocked"]
  /\ iflag' = [iflag EXCEPT ![t] = FALSE]
  /\ UNCHANGED <<wake_tick, reaping, current, lists, ticks, slice, preempt, due>>

(* the thread_yield of wait_queue_wait, interrupts still disabled.         *)
BlockYield(t) ==
  /\ current = t /\ pc[t] = "blocked"
  /\ pc' = [pc EXCEPT ![t] = "resumed"]
  /\ Schedule(state, ready)
  /\ UNCHANGED <<wake_tick, iflag, reaping, sleepers, zombies, ticks, preempt, due>>

(* irq_restore at the end of wait_queue_wait.                              *)
BlockReturn(t) ==
  /\ current = t /\ pc[t] = "resumed"
  /\ pc' = [pc EXCEPT ![t] = "run"]
  /\ iflag' = [iflag EXCEPT ![t] = TRUE]
  /\ UNCHANGED <<state, wake_tick, reaping, current, lists, clock, due>>

\* Mutant of ThreadWake: the state of the thread is not tested.
MutWakeAny(u) ==
  /\ pc[current] = "run" \/ iflag[current]
  /\ state[u] \notin {"FREE", "READY"}
  /\ state' = [state EXCEPT ![u] = "READY"]
  /\ ready' = Append(ready, u)
  /\ resched' = TRUE
  /\ UNCHANGED <<wake_tick, pc, iflag, reaping, current, sleepers, zombies,
                 ticks, slice, preempt, due>>

\* Mutant of ThreadWake: a woken thread goes to the front of the ready list.
MutWakeFirst(u) ==
  /\ pc[current] = "run" \/ iflag[current]
  /\ state[u] = "BLOCKED"
  /\ state' = [state EXCEPT ![u] = "READY"]
  /\ ready' = <<u>> \o ready
  /\ resched' = TRUE
  /\ UNCHANGED <<wake_tick, pc, iflag, reaping, current, sleepers, zombies,
                 ticks, slice, preempt, due>>

(* thread_wake, called by the running thread or by the keyboard interrupt  *)
(* handler; it does nothing for a thread that is not blocked.              *)
ThreadWake(u) ==
  /\ pc[current] = "run" \/ iflag[current]
  /\ state[u] = "BLOCKED"
  /\ state' = [state EXCEPT ![u] = "READY"]
  /\ ready' = Append(ready, u)
  /\ resched' = TRUE
  /\ UNCHANGED <<wake_tick, pc, iflag, reaping, current, sleepers, zombies,
                 ticks, slice, preempt, due>>

(* thread_exit up to its irq_restore.  Neither kernel_main nor the idle    *)
(* loop ever returns, so only heap-allocated threads exit.                 *)
ThreadExit(t) ==
  /\ InThreadCode(t) /\ t # Boot
  /\ state' = [state EXCEPT ![t] = "ZOMBIE"]
  /\ zombies' = Append(zombies, t)
  /\ resched' = TRUE
  /\ pc' = [pc EXCEPT ![t] = "exited"]
  /\ UNCHANGED <<wake_tick, iflag, reaping, current, ready, sleepers, ticks,
                 slice, preempt, due>>

(* the thread_yield that ends thread_exit; pc stays, as it never returns.  *)
ExitYield(t) ==
  /\ current = t /\ pc[t] = "exited"
  /\ Schedule(state, ready)
  /\ UNCHANGED <<wake_tick, pc, iflag, reaping, sleepers, zombies, ticks,
                 preempt, due>>

\* Mutant of ReapPop: the zombie is read but not unlinked from the list.
MutReapPeek(t) ==
  /\ InOwnCode(t)
  /\ zombies # <<>>
  /\ zombies' = zombies
  /\ reaping' = [reaping EXCEPT ![t] = Head(zombies)]
  /\ pc' = [pc EXCEPT ![t] = "reaping"]
  /\ UNCHANGED <<state, wake_tick, iflag, current, ready, sleepers, clock, due>>

(* One turn of the loop of thread_reap_zombies: pop under irq_save, then   *)
(* free the stack and the object with interrupts enabled.                  *)
ReapPop(t) ==
  /\ InOwnCode(t)
  /\ zombies # <<>>
  /\ zombies' = Tail(zombies)
  /\ reaping' = [reaping EXCEPT ![t] = Head(zombies)]
  /\ pc' = [pc EXCEPT ![t] = "reaping"]
  /\ UNCHANGED <<state, wake_tick, iflag, current, ready, sleepers, clock, due>>

ReapFree(t) ==
  /\ current = t /\ pc[t] = "reaping"
  /\ state' = [state EXCEPT ![reaping[t]] = "FREE"]
  /\ reaping' = [reaping EXCEPT ![t] = None]
  /\ pc' = [pc EXCEPT ![t] = "run"]
  /\ UNCHANGED <<wake_tick, iflag, current, lists, clock, due>>

(* kernel_main: the software-yield test is over (nothing ready), then      *)
(* pit_init, thread_preemption_init and interrupts_enable.                 *)
PreemptionInit ==
  /\ InOwnCode(Boot) /\ ~ preempt
  /\ ready = <<>>
  /\ preempt' = TRUE
  /\ slice' = 0 /\ resched' = FALSE
  /\ iflag' = [iflag EXCEPT ![Boot] = TRUE]
  /\ UNCHANGED <<state, wake_tick, pc, reaping, current, lists, ticks, due>>

(* IRQ 0: irq_handler, pit_irq_handler, thread_on_timer_tick with          *)
(* wake_due_sleepers, and the scheduler when a reschedule is requested.    *)
TimerTick ==
  /\ preempt /\ iflag[current]
  /\ LET now == TickAdd(ticks, 1)
     IN /\ ticks' = now
        /\ \E n \in 0..Len(sleepers) :
             LET woken == {sleepers[i] : i \in 1..n}
                 st == [t \in Threads |-> IF t \in woken THEN "READY" ELSE state[t]]
                 rq == ready \o SubSeq(sleepers, 1, n)
                 request == resched \/ n > 0 \/ SliceUsed(rq) >= TicksPerSlice
             IN /\ DueHeads(now, n)
                /\ sleepers' = SubSeq(sleepers, n + 1, Len(sleepers))
                /\ \/ request /\ Schedule(st, rq)
                   \/ /\ ~ request
                      /\ state' = st /\ ready' = rq /\ current' = current
                      /\ slice' = SliceUsed(rq) /\ resched' = resched
  /\ due' = [t \in Threads |->
               IF state[t] = "SLEEPING" /\ due[t] > 0 THEN due[t] - 1 ELSE due[t]]
  /\ UNCHANGED <<wake_tick, pc, iflag, reaping, zombies, preempt>>

-----------------------------------------------------------------------------
(* threading_init: kernel_main runs on Boot with interrupts disabled, the  *)
(* idle thread exists but has not run.                                     *)
Init ==
  /\ state = [t \in Threads |-> CASE t = Boot -> "RUNNING"
                                  [] t = Idle -> "NEW"
                                  [] OTHER -> "FREE"]
  /\ wake_tick = [t \in Threads |-> 0]
  /\ pc = [t \in Threads |-> "run"]
  /\ iflag = [t \in Threads |-> t # Boot]
  /\ reaping = [t \in Threads |-> None]
  /\ current = Boot
  /\ ready = <<>> /\ sleepers = <<>> /\ zombies = <<>>
  /\ ticks = 0 /\ slice = 0
  /\ resched = FALSE /\ preempt = FALSE
  /\ due = [t \in Threads |-> 0]

ThreadStep(t) ==
  \/ \E u \in Thread, enqueue \in BOOLEAN : ThreadCreate(t, u, enqueue)
  \/ \E u \in Thread : ThreadStart(t, u)
  \/ ThreadYield(t)
  \/ \E d \in SleepDurations : ThreadSleepTicks(t, d)
  \/ SleepYield(t)
  \/ ThreadBlockCurrent(t)
  \/ BlockYield(t)
  \/ BlockReturn(t)
  \/ ThreadExit(t)
  \/ ExitYield(t)
  \/ ReapPop(t)
  \/ ReapFree(t)

Next ==
  \/ \E t \in Threads : ThreadStep(t)
  \/ \E u \in Threads : ThreadWake(u)
  \/ PreemptionInit
  \/ TimerTick

Spec == Init /\ [][Next]_vars

(* The timer keeps firing: a pending IRQ 0 is latched by the interrupt     *)
(* controller and taken as soon as the running thread enables interrupts.  *)
(* Straight-line kernel code between two calls goes on by itself.          *)
Fairness ==
  /\ SF_vars(TimerTick)
  /\ \A t \in Threads :
       WF_vars(SleepYield(t) \/ BlockYield(t) \/ BlockReturn(t) \/ ExitYield(t)
               \/ ReapFree(t))

FairSpec == Spec /\ Fairness

-----------------------------------------------------------------------------
NoDuplicates(seq) == \A i, j \in 1..Len(seq) : seq[i] = seq[j] => i = j

InList(t, seq) == \E i \in 1..Len(seq) : seq[i] = t

(* The intrusive next/prev lists agree with thread->state: a thread is in  *)
(* the ready (sleep) list exactly once iff it is READY (SLEEPING), a       *)
(* ZOMBIE is in the zombie list or held by exactly one reaper, so no       *)
(* thread is ever linked into two lists or twice into one, although a      *)
(* sleeping thread may be woken and requeued while it is still current     *)
(* (thread_sleep_ticks, between irq_restore and thread_yield).             *)
ListsMatchStates ==
  /\ NoDuplicates(ready) /\ NoDuplicates(sleepers) /\ NoDuplicates(zombies)
  /\ \A t \in Threads :
       /\ InList(t, ready) <=> state[t] = "READY"
       /\ InList(t, sleepers) <=> state[t] = "SLEEPING"
       /\ state[t] = "ZOMBIE" <=>
            InList(t, zombies) \/ \E r \in Threads : reaping[r] = t
       /\ \A r \in Threads : reaping[r] = t => ~ InList(t, zombies)
  /\ \A r, q \in Threads : reaping[r] = reaping[q] /\ reaping[r] # None => r = q

(* The CPU is on exactly the thread the scheduler says: only current (and  *)
(* the parked idle thread) is RUNNING, and a thread executing its own code *)
(* is RUNNING, so the panics of thread_block_current ("called on           *)
(* non-running thread") and of thread_exit ("returned unexpectedly") are   *)
(* unreachable.                                                            *)
CurrentIsRunning ==
  /\ \A t \in Threads \ {Idle} : state[t] = "RUNNING" => t = current
  /\ state[current] = CASE pc[current] = "blocked" -> "BLOCKED"
                        [] pc[current] = "exited" -> "ZOMBIE"
                        [] pc[current] = "slept" /\ InList(current, sleepers) -> "SLEEPING"
                        [] OTHER -> "RUNNING"

(* thread_reap_zombies never frees a stack that is in use: whatever a      *)
(* reaper holds has already been switched away from for the last time.     *)
ReaperHoldsDeadStack ==
  \A r \in Threads : reaping[r] # None =>
    /\ reaping[r] # current
    /\ reaping[r] # r
    /\ state[reaping[r]] = "ZOMBIE" /\ pc[reaping[r]] = "exited"

(* A thread that called thread_exit is never dispatched again; the only    *)
(* way out of ZOMBIE is to be freed by a reaper.                           *)
ExitIsFinal ==
  [][\A t \in Threads : state[t] = "ZOMBIE" =>
       /\ state'[t] \in {"ZOMBIE", "FREE"}
       /\ current' = t => current = t]_vars

(* thread_sleep_ticks(d) sleeps for exactly d timer ticks: a sleeper is    *)
(* still on the list after a tick iff it has not seen d of them.  This is  *)
(* about the order sleep_insert keeps, and about the wrap of the counter.  *)
SleepsRequestedTicks ==
  [][\A t \in Threads : state[t] = "SLEEPING" =>
       (state'[t] = "SLEEPING" <=> due'[t] > 0)]_vars

(* Round robin without overtaking: a READY thread keeps or improves its    *)
(* place in the ready list at every step until it is dispatched.           *)
NoOvertaking ==
  [][\A i \in 1..Len(ready) :
       \/ current' = ready[i]
       \/ \E j \in 1..i : j <= Len(ready') /\ ready'[j] = ready[i]]_vars

(* Once preemption is on, every READY thread is dispatched, whatever the   *)
(* others do (thread_on_timer_tick, slice accounting).                     *)
ReadyThreadRuns ==
  \A t \in Threads : (preempt /\ state[t] = "READY") ~> (current = t)

(* Every sleeper is eventually dispatched again.                           *)
SleeperRuns ==
  \A t \in Threads : (state[t] = "SLEEPING") ~> (current = t /\ state[t] = "RUNNING")
=============================================================================
