# TLA+ specifications of the Toyix kernel

Toyix is a small teaching kernel for one i686 CPU: preemptive kernel threads,
blocking synchronisation, user processes with system calls, a monitor and a
user shell.  This directory holds TLA+ modules that model it, TLC
configurations that check them on small instances, and TLAPS proofs of the most
important results for every instance.  Source paths below are relative to the
repository root.

## 1. Inventory

| Part | State it keeps | Operations | Interacts with |
|---|---|---|---|
| Scheduler (`kernel/thread.c`) | current thread, ready, sleep and zombie lists, tick counter, slice, reschedule flag | create, start, yield, sleep, block, wake, exit, reap, timer tick, schedule | timer interrupt calls it; everything else calls it |
| Wait queues (`kernel/wait_queue.c`) | list of blocked threads | wait (with a condition), wake one, wake all | `thread_block_current`, `thread_wake` |
| Mutex, semaphore (`kernel/sync.c`) | `locked`, `owner`; `count`; a wait queue each | lock, try, unlock; wait, try, signal | console lock, keyboard, self test |
| Processes (`kernel/process.c`) | table, PIDs, parents, exit status, kill flag, files, address space | create, start, exit, request kill, wait, destroy | system calls, monitor, scheduler |
| System calls (`kernel/syscall.c`) | none of its own | 14 calls, kill test around most | processes, terminal, files |
| Programs, monitor (`kernel/program.c`, `kernel/monitor.c`) | registry of embedded programs | run, runbg, wait, sleep, ... | processes |
| Console (`kernel/console.c`) | output mutex | lock only where interrupts are enabled | every component prints |
| Keyboard, terminal (`drivers/input/keyboard.c`, `kernel/terminal.c`) | key ring, modifiers, reader queue | interrupt handler, blocking read, line editing | wait queue, `SYS_READ` |
| Heap (`kernel/heap.c`) | list of blocks, end of the mapped range | kmalloc, kcalloc, kfree, grow | unlocked; called by preemptible code |
| Physical pages, address spaces, page tables (`kernel/pmm.c`, `kernel/address_space.c`, `arch/x86/vmm.c`) | page bitmap, mappings | allocate, map, unmap, switch, destroy | processes, heap |
| Files (`kernel/vfs.c`, descriptor table in `kernel/process.c`) | open files and offsets | open, read, seek, stat, close | system calls |
| ELF loader, arguments (`kernel/elf_loader.c`, `process_setup_arguments`) | none | validate, load, lay out the stack | processes |
| Shell (`user/shell.c`) | job table of eight slots | run, runbg, jobs, wait, kill | system calls |

What is hard here:

* **Interrupts as concurrency.**  A thread loses the CPU at any instruction
  where `EFLAGS.IF` is set.  The kernel protects itself with
  `irq_save`/`irq_restore`, often in *several* critical sections per operation
  (`mutex_lock` and `wait_queue_wait`, `wait_queue_wake_one`,
  `thread_sleep_ticks`, `thread_reap_zombies`), and the correctness of each
  operation depends on what may happen between them.
* **Intrusive lists.**  A thread has one pair of links for four kinds of list;
  one enqueue too many corrupts two lists at once.
* **A wrapping clock** compared by signed difference.
* **Lifetimes.**  A thread cannot free its own stack, a process is freed by
  whoever waits for it, and the exit becomes visible before the thread is gone.
* **Unprotected state** that preemptible code changes: `next_pid`, the frame
  bitmap, the heap's block list.
* **Two directories for one kernel.**  Kernel page tables are created in the
  kernel's directory and copied into a process's at the next switch.
* **32-bit sums** of offsets and sizes that come from a program image or from
  user code.
* **Multi-step loading and teardown**, with interrupts enabled in the monitor.

The properties that make each part correct are in section 4; every known
hazard, with the source line and the property that covers it, is in
`PROJECT.json`.

## 2. Modules

| Module | Models | Composed with |
|---|---|---|
| `Scheduler` | threads, lists, timer, reaping | |
| `WaitQueue` | wait queue over an abstract scheduler | extended by `Mutex`, `Semaphore`, `Keyboard` |
| `ResourcePool` | abstract: what a mutex, a semaphore, the keyboard promise | refined by all three |
| `Mutex`, `Semaphore` | `mutex_t`, `semaphore_t` | |
| `Keyboard` | key ring, modifiers, readers, line editing | |
| `Process` | process life cycle, kill and wait | |
| `Allocator` | abstract: what kmalloc and kfree promise | refined by `Heap` |
| `Heap` | block list: first fit, split, merge, growth | |
| `PhysicalMemory` | frame bitmap, memory map | extended by `ProgramImage` |
| `ProgramImage` | ELF checks, regions to map, argument layout | extended by `AddressSpaces` |
| `AddressSpaces` | page directories and tables, user range checks | extended by `Memory` |
| `Memory` | loading, running and destroying programs, growth of the heap's range | |
| `Files` | nodes, open files, descriptor tables, file system calls | extends `Process` |
| `Shell` | the user shell with its jobs, programs and the monitor | extends `Files` |
| `SchedulerProofs`, `WaitQueueProofs`, `MutexProofs`, `SemaphoreProofs`, `KeyboardProofs`, `HeapProofs`, `MemoryProofs` | theorems about the module of that name | |
| `ProcessProofs` | theorems about `Process`, `Files` and `Shell` | |
| `MC*` | instances for TLC | |

**Common conventions.**  A stretch of code that runs with interrupts disabled
(between `irq_save` and `irq_restore`, in an interrupt handler, in a system call
before `interrupts_enable`) is one action.  Wherever code runs with interrupts
enabled and has more to do, a value of `pc` marks the place, so that anything
may happen there.  This is exact for one CPU.  Definitions that start with
`Mut` are deliberate errors used to show that a property can fail; no
specification uses them.

**Scheduler.**  One variable per static variable of `thread.c` (`current`,
`ready`, `sleepers`, `zombies`, `ticks`, `slice`, `resched`, `preempt`), one
function per field of `thread_t` that matters (`state`, `wake_tick`), plus the
position `pc` and the interrupt flag `iflag` a thread resumes with and the
zombie a reaper has popped (`reaping`).  `due` is history: ticks a sleeper has
still to see.  Linked lists are sequences; thread objects are allocated from
and freed to the set `Thread`.  Each function of `thread.c` is one action, or
one up to its `irq_restore` and one for the `thread_yield` that follows.
`TimerTick` is the whole of IRQ 0: `irq_handler`, `thread_on_timer_tick`,
`wake_due_sleepers` and, if requested, `thread_schedule_from_interrupt`.
Tick arithmetic is modulo `TickMod` (2^32 in the code) and
`tick_reached` keeps the signed comparison.

**WaitQueue, Mutex, Semaphore.**  These abstract the scheduler to what
`Scheduler` shows of it: a thread that is not BLOCKED can take its next step at
any time.  A waiting operation has three places: before the caller's own test,
at the test inside `wait_queue_wait`, blocked.  `wait_queue_wake_one` has two:
before the pop, and after the pop and before `thread_wake`.  A semaphore starts
with any count up to `MaxCount`.

**Keyboard.**  The ring with its indices and count, the modifier flags, and for
each reader the character it holds and the length of its line.  IRQ 1 is one
action, wake-up included; `keyboard_debug_inject_char`, which the boot-time tests
call from a thread, is three.  A key belongs to one of a few classes, one of
them not printable (tab), which line editing ignores; `translate` is the effect of
shift and caps lock on them.  Readers are the monitor and any process
in `SYS_READ`, so several may compete.  `pending` is history: what was accepted
and not read.

**Process.**  `state`, `pid`, `parent_pid`, `exited`, `exit_code`,
`kill_requested` are the fields of `process_t`, `table` the list from
`process_head`.  A system call that keeps interrupts disabled is one action;
`SYS_SLEEP`, terminal `SYS_READ` and `SYS_WAITPID` enable them and are split.
(`console_lock` takes no mutex when interrupts are disabled, so printing does
not split a call.)  The monitor runs with interrupts enabled, so its
`next_pid++` is a load and a store.  `creator` is history: who really launched
a process.  The constant `Features` bounds what users do in a run.  A process
object is never reused in the model, so that touching a freed one is visible.

**Heap.**  The block list is a sequence of addresses, sizes and free flags.
Every call is one action, so `Heap` is the allocator as callers see it that do
not preempt each other inside a call; the code does not guarantee that, see the
hazard at `kernel/heap.c:404`.  `live` is history: who was promised what.  The
kernel stops after a panic, and `panic` says why and for what size.  `heap_grow`
keeps its 32-bit page count.

**PhysicalMemory, ProgramImage, AddressSpaces, Memory.**  A frame is a number,
and so is an address; a page table is the content of a frame, so that a frame
with two users would be seen.  `ProgramImage` has the checks of
`elf_loader.c` in 32-bit arithmetic and the stack that
`process_setup_arguments` builds; an image is a record of what the loader looks
at, an argument the length of its string.  `Memory` composes them.  An actor is
named by the space it runs in: the monitor, or a process inside `SYS_EXEC`,
which keeps interrupts disabled (`irq_off`).  A launch goes allocation by
allocation and region by region, `region` and `cursor` saying how far it is:
region 0 is the stack, which is mapped first, region *i* the segment of the
*i*-th program header.  A teardown goes page by page and table by table.
Each allocation is a scan and a mark, and the monitor may be preempted between
them as anywhere else (`Dispatch`).  The code puts no condition on when a launch
begins; the model leaves out three uses, in one place (`MayLaunch`), unless
`Features` names them, and each has a run that shows what happens then (section
6): a launch while another thread is between a scan and its mark
(`"alloc_race"`), a process's launch for which the heap needs a new page table
(`"heap_table"`), and one for which it needs a table with fewer than two low
frames left (`"low_memory"`).  As in `Heap`, growths of the heap do not overlap
with other launches.  Failure paths that
end in `kernel_panic` are `Halt`, with the reason: every failed launch panics,
for `program.c` and `process.c` treat each as fatal.  `vmm_map_page` alone has no
test for a page table it could not allocate and goes on through address 0, which
is mapped; that end is `"null table"`.  The heap appears as pages
that a launch may have to map first; its blocks are in `Heap`.  In the code any
`kmalloc` of a launch may grow the heap (`process_create_empty`,
`address_space_create`, `mapping_add`, thread creation), and by several pages; in
the model the first one does, by one page.

**Files.**  `Process` with an object per open file, its node and offset, and
one table of descriptors per process.  The file system calls never enable
interrupts and are one action each; `process_close_all_files` takes the table
in one step and frees file after file.  Byte *i* of a file is *i*.  Offsets are
modulo `Word`, and `toyix_seek` returns them as signed numbers.

**Shell.**  A step is the shell's code up to its next system call.  The user's
line is abstracted to the command it selects.  The other programs open, read,
seek and close, or exit; the monitor launches the shell and waits for any
process.  A waiter whose target has been freed under it stops: the code panics
in `validate_live_process`, or goes on a little with the freed object if it is
past that test (finding 2 shows that case).  The shell's buffers are
its own, so its user copies never fail; those of other programs may.

## 3. Plan

1. Scheduler and its proofs: done.
2. Wait queues, mutex, semaphore, pool refinement, proofs: done.
3. Process life cycle and its proofs: done.
4. Keyboard and terminal and their proofs: done.
5. Heap, its refinement of `Allocator` and the proofs: done.
6. Frames, address spaces, program images, user ranges and their proofs: done.
7. Files, descriptors, the shell and its jobs, with proofs: done.
8. Console: the output mutex with its callers that skip it (interrupts
   disabled) and the idle thread, which must never block on it.

## 4. Runs

| Run | Bounds | What it shows |
|---|---|---|
| `scheduler` | one heap thread, Boot, Idle; counter of 4 values; sleeps of 1 and 2; slice 2 | `ListsMatchStates`, `CurrentIsRunning`, `ReaperHoldsDeadStack`, `ExitIsFinal`, `SleepsRequestedTicks`, `NoOvertaking`; `ReadyThreadRuns`, `SleeperRuns` under `FairSpec` |
| `wait_queue` | a mutex with 4 threads; a semaphore with 4 threads and 0 to 3 units at first; the keyboard with 2 readers, a ring of 2 and lines of 2 | `MutualExclusion`, `MutexQueue`, `MutexWakeup`, `MutexPool`; `SemaphoreType`, `SemaphoreQueue`, `SemaphoreWakeup`, `SemaphorePool`; `RingIsQueue`, `BlockedIsQueued`, `NoLostWakeup`, `ImplementsPool`; no deadlock |
| `process` | 3 processes and the monitor | `NoDanglingTarget`, `TeardownOrder`, `TableConsistent`, `WaitsForOwnChild`, `ExitIsFinal`, `KillHonoured` |
| `process_killrace`, `process_doublewait`, `process_pidrace` | 2, 2 and 4 processes | findings, see section 6 |
| `heap` | 3 pages of 12 bytes, 1 at first; requests of 1, 5, 11, 120 and 127 bytes | `HeapTiled`, `UsedBlocksAreLive`, `PanicOnlyForMemory`, refinement of `Allocator` |
| `memory` | 3 spaces and the monitor, 3 launches, up to 3 heap pages, 32 frames of 16 bytes, tables of 2 entries | `FramesAccounted`, `SpacesConsistent`, `KernelMappingsShared`, `LoadedAsDeclared`, `PanicOnlyForCause`, `UserCopySafe` |
| `memory_allocrace`, `memory_heapfault`, `memory_nulltable` | as `memory`, with the feature in question | findings, see section 6 |
| `shell` | the shell, 3 programs and the monitor; 2 job slots; 3 file objects, 1 descriptor per process; a file of 3 bytes read by 2 | `FilesOwned`, `CatPrintsFile`, `JobsTracked` |

**Why the bounds are enough.**  The scheduler has one heap thread beside Boot and
Idle, so that one thread runs while another is ready, asleep or dead; the
two can sleep at once, for different times, and the thread's object is used again
after being reaped.  Longer queues, and two zombies at once, are covered by
`SchedulerProofs`, which has any number of threads.  The counter wraps many times within
a run; the width only matters relative to the sleeps.  In `wait_queue` one of the
three clients runs in each behaviour.  For the mutex, a holder, a queue of two and a thread
that barges in; for the semaphore, two overlapping signals and two sleepers;
for the keyboard, two characters for two sleeping readers, or one reader that
comes between the other's wake-up and its pop, and a ring that fills and wraps.
For processes, a shell, its child and a grandchild; four objects where two
launches race.
For the heap, requests that split a block, that take all of one, that need one
page or two, and one whose page count wraps; three pages hold a block with free
neighbours on both sides.
For memory, one actor destroys a space while another loads into the frames it
gives back, and a third lives; low frames run out while others are free; the heap grows
into a second page table.  Only the first launch (`Commands`) takes the bad
images and unusual arguments, later ones (`LaterCommands`) a plain image, as
what the loader accepts does not depend on history; `MaxLaunches` bounds the
number of programs, `MaxHeapPages` the heap.
For the shell, a job table that is full when a third program is started, a slot
that is stale because the monitor has waited for its job, a `cat` whose last
read is short, and a descriptor table that is full after one `open`, while a
program (`FileUsers`) dies with a file open; `Victims` bounds whom the user
kills.  Features of `Process` that the shell run leaves out are checked in
`process`.
The proofs remove the bounds of the runs for every safety property (section 5);
only the liveness properties rest on them.

A process or shell model that has used up its objects, and a kernel that has
panicked, stop: those runs do not check deadlock.  A semaphore that every
thread waits on, with none left to signal it, stutters in `wait_queue`.

**Fairness.**  Scheduler: the timer is strongly fair, as a pending IRQ 0 is
latched by the interrupt controller and taken once interrupts are enabled, and
the straight-line code after an `irq_restore` goes on by itself; nothing is
assumed of calls, so a thread may compute forever.  Mutex, semaphore and keyboard: a
thread inside an operation that is not blocked goes on, which is what
`ReadyThreadRuns` shows; nothing is assumed of how long a mutex is held.
Process: the same, and that a sleep ends (`SleeperRuns`); a program goes on
making system calls, which a cooperative kill relies on; nothing is assumed of
the keyboard.

## 5. Proofs

All proofs are checked by TLAPS with its SMT, Zenon and PTL backends.

* **SchedulerProofs** (`ThreadAssumption`, `TickAssumption`).  `Inductive`
  proves an invariant that strengthens the checked ones: no thread is in two
  lists, positions and states correspond (a thread at `"slept"` is SLEEPING
  or was requeued, one at `"exited"` is dead for good), a zombie is in the list
  or with exactly one reaper, and idle is never queued.  It is needed because
  none of `ListsMatchStates`, `CurrentIsRunning` and `ReaperHoldsDeadStack` is
  inductive alone: that a reaper's zombie is not `current` depends on the lists,
  and the lists depend on what `current` may be.  Lemmas state what push, pop,
  ordered insertion and moving a prefix do to a duplicate-free sequence, and
  what one `Schedule` does; then there is one lemma per action.  From it follow
  `TypeCorrect`, `ListsAlwaysMatch`, `CurrentAlwaysRunning`,
  `ReaperAlwaysSafe`, `ExitAlwaysFinal`.  `NeverOvertaken` needs no more than the
  types of the list: threads are only appended, and only the head leaves.
  `SleepAlwaysExact` needs a second
  invariant, that the sleep list is sorted by remaining ticks and `due` agrees
  with `wake_tick - ticks`, and the hypothesis that sleeps are shorter than half
  the counter.  The hypothesis is necessary: `tick_reached`
  (`kernel/thread.c:187`) takes a longer distance for a negative one, and such a
  sleep ends at the next tick.  At 100 ticks a second that is 248 days.
* **WaitQueueProofs** has what `Wait`, `WakePop` and `WakePopped` do to the
  queue's own invariant, and what a pop and wake-up in one step (the interrupt
  handler's) does, once for all three clients.
* **MutexProofs**, **SemaphoreProofs**: exclusion, no lost wake-up, the queue
  invariant, and that every step maps to a step of `ResourcePool` or a stutter
  (`ImplementsSafePool`), for any set of threads (finite for the semaphore,
  whose wake-up invariant counts threads) and any initial count.
* **KeyboardProofs** (`KeyboardAssumption`): the ring is a queue, no lost
  wake-up, the reader queue is sound, and every step is a step of
  `ResourcePool` or none, for any finite set of readers, any ring and any line
  length.  The invariant is the conjunction of `TypeOK`, the wait queue's
  invariant, `RingIsQueue` and `NoLostWakeup`: that a woken reader finds a
  character, or that another has taken it, needs the count of the ring and the
  state of all readers at once.  Wake-ups are counted, so a step that moves one
  reader is a fact about the cardinality of the set of readers that are awake.
* **ProcessProofs** (`ProcAssumption`, `FilesAssumption`, `ShellAssumption`), for
  any set of processes, files, descriptors and job slots.  The invariant comes
  in layers, each needed by the next, so that every theorem has the weakest
  hypotheses it can have:
  * `BaseInv`, whatever users do: how state, thread, exit flag and position of a
    process go together, what a launching or waiting actor's position says of its
    target, and no duplicate in the table.  It gives `TypeCorrect`,
    `TeardownInOrder` and `ExitStaysFinal`.
  * `PidInv`, where launches do not race (`"launch_race" \notin Features`): PIDs
    are distinct and below `next_pid`, so that a parent PID names the launcher.
    It gives `WaitersOwnTheirChild`.
  * `ExclusiveInv`, where in addition the monitor waits only for processes
    without a parent (`"wait_any" \notin Features`): two actors never wait for
    the same process, so what one waits for is in the table until it unlinks it
    itself.  It gives `NeverDangling` and `TableStaysConsistent`.
  * `FilesInv`, again whatever users do: a file object has one holder, and what a
    collector is closing belonged to a process that can open nothing any more.  It gives
    `FilesAlwaysOwned`; the cardinalities of the property are derived from it.
  * `CatInv`: while `cmd_cat` runs its file is open at one descriptor and the
    offset is the number of bytes printed, which no other process can move.
    It gives `CatAlwaysPrintsFile`.
  * `JobsInv`, where launches do not race: the shell's children are in the table
    of jobs or in the hands of the current command.  It gives
    `JobsAlwaysTracked`, which allows the monitor to collect the shell's jobs.

  The hypotheses are about use, not about instances: findings 2 and 3 show that
  without them the properties fail in the code.  `ShellImplementsProcess`
  shows that every step of the shell, its programs and the files is a step of
  `Process` or none, so the theorems about processes hold of them too.
* **HeapProofs** (`HeapAssumption`): for any page size, header, alignment,
  minimal split and range, the blocks tile the heap, used blocks are the live
  allocations, the heap panics only for want of memory, and it implements
  `Allocator`.  Neither `HeapTiled` nor `UsedBlocksAreLive` is inductive alone:
  `HeapInv` adds that every address and size is aligned (else a split or a
  merge would leave an unaligned block), that the end of one block is the start
  of the next up to `heap_virtual_next`, and that `live` agrees with the used
  blocks by address.  Three facts carry the proof: a chain of adjacent blocks is
  ordered (`ChainOrder`, by least counterexample, as induction over data is out
  of reach), hence a payload address names one block (`PayloadUnique`), and
  replacing one block by two or two by one keeps a chain a chain (`ChainSplit`,
  `ChainMerge`).  `kfree` and `heap_grow` first make two free neighbours and
  then merge them; `MergedBut` names the place where that is allowed meanwhile.
  The last clauses of `HeapAssumption` say that the heap's range with one page to spare
  fits the address arithmetic, as `0xD1000000` to `0xD2000000` does in 32 bits;
  `PanicsOnlyForMemory` needs it, as a page count may only wrap for a request
  beyond the heap.

* **MemoryProofs** (`PhysicalAssumption`, `ImageAssumption`,
  `SpaceAssumption`, `MemoryAssumption`), for any number of spaces, frames,
  programs, program headers, arguments and heap pages and any page and table
  size.  Threads are preempted anywhere, inside an allocation too.  The hypothesis
  of every theorem is that no launch begins while another thread is
  between the test of a bit and its mark (`"alloc_race" \notin Features`): the run
  `memory_allocrace` shows that it is needed.  The assumptions say
  that header fields, user pointers and lengths are 32-bit words, that the
  user range begins and ends at directory entries below the kernel's heap, and
  that the heap's range ends before the addresses do.  The invariant comes in
  layers:
  * `MapInv`: a space is loaded or destroyed by one actor, and never the one that
    runs, so the directory that a launch or a teardown changes is not loaded.  A
    process that loads a program has interrupts disabled and runs alone, and began
    when the monitor was in no allocation and no growth (`ExecInv`): what
    the hypothesis is for.  The loaded directory lacks at most the table that a
    growth has just created.
  * `WorkInv`: what each actor's position says of its space and of what it has in
    hand.  A scanned frame is free until it is marked; a frame is in hand exactly
    between its allocation and its entry; the space has nothing before its
    directory is made and is torn down to nothing; the cursor is a page of the
    region that is being mapped, and the image has passed the checks.
  * `PageInv`: uses of frames (a directory, a table, a page, a frame in hand) form
    a map that is injective where it holds a frame and agrees with the bitmap and
    `free_frames` (`Accounted`); the heap's pages end at the next one to be mapped;
    no table of the kernel lets user code in; and each space's list is what its
    tables map.  Entering a page is right only if its table is in no other
    directory, which is the injectivity, and a table may be freed only if the list
    is empty, so the parts cannot be proved one by one.  `MemoryInductive` proves
    the three together; it gives `FramesAlwaysAccounted`, `SpacesAlwaysConsistent`
    and `UserCopyAlwaysSafe`.
  * `TableInv`: a process that grows the heap has the table in its directory.  It
    gives `KernelAlwaysShared`, with the
    hypothesis `"heap_table" \notin Features`, which `memory_heapfault` shows to be
    needed.
  * `LoadInv`: while a program is loaded its space has the pages of the regions
    that are done and those of the current one below the cursor; afterwards those
    of the image and the stack.  It gives `AlwaysLoadedAsDeclared`.  The order of
    argument strings comes from `StringAt`, a recursive function: that it exists and
    is what its definition says is proved by least counterexample.
  * `LowInv`: a growth that needs a table finds a low frame for it.  With it
    `PanicAlwaysForCause` follows from all of the above: a page is refused only where
    two segments, or a segment and the stack, overlap; what is filled or written
    of the stack is mapped; a listed page is mapped and a table without listed
    pages is empty when `address_space_destroy` comes to them; and the heap's new
    page is mapped where it is cleared.  Beside `"heap_table"` and `"low_memory"`
    `\notin Features` (see `memory_heapfault` and `memory_nulltable`) its
    hypothesis is that the arguments passed fit the stack.  `LimitsFit` says when
    they do: within `PROCESS_MAX_ARGC` and `PROCESS_MAX_ARG_STRING` always, if
    MaxArgc * MaxArgString + (MaxArgc + 4) * WordSize <= StackSize, and
    16 * 128 + 20 * 4 <= 4096.  Both callers stay within the limits: at most 8
    arguments, of less than 64 bytes in `SYS_EXEC` (`kernel/syscall.c:14`) and
    cut from a line of 128 with its terminator in the monitor
    (`kernel/monitor.c:12`).

  Three groups of lemmas carry this: division of addresses into directory index,
  table index and offset, and rounding to pages; what taking, moving and giving
  back one frame does to an injective map (`AddUse`, `MoveUse`, `DropUse`); and that
  the 32-bit checks of the loader are exact on words (`PlusExact`,
  `SegmentChecked`).

**Only model-checked.**  Liveness (`ReadyThreadRuns`, `SleeperRuns`,
`KillHonoured`, the fairness part of `ImplementsPool`, `MutexPool` and
`SemaphorePool`) is out of the prover's
reach.  Every other property of the passing runs has a theorem.

## 6. Findings

Each is the violation of one property in a run of its own.

1. `process_killrace`: a process killed in `SYS_SLEEP` or `SYS_READ` is marked
   exited with interrupts enabled, and its waiter may free it and its address
   space while its thread is still to run (`kernel/syscall.c:478`).
2. `process_doublewait`: the monitor's `wait` and a parent's `SYS_WAITPID` on
   the same child; the second one uses a freed object (`kernel/monitor.c:411`).
3. `process_pidrace`: `next_pid++` by the monitor interrupted by a `SYS_EXEC`
   gives one PID twice, and parent links, which are PIDs, become ambiguous
   (`kernel/process.c:122`).
4. `memory_allocrace`: `pmm_alloc_page` and `pmm_alloc_page_below` test a bit and
   then set it, with interrupts enabled in the monitor's launches
   (`kernel/pmm.c:231`, `249`).  A process in `SYS_EXEC` gets the frame the monitor
   is about to mark, and one frame is in use by two programs
   (`FramesAccounted`), although `pmm_test_once` takes "duplicate page allocation"
   for an error (`kernel/pmm.c:357`).
5. `memory_heapfault`: when the heap needs a new page table inside a process's
   system call, which takes a heap of more than 4 MiB, the table is entered into
   the kernel's directory only, and clearing the new page faults
   (`kernel/heap.c:290`, `PanicOnlyForCause`), although "kernel heap mappings are
   shared" (`articles/chapter_19.md:1156`, also line 1443).
6. `memory_nulltable`: when the heap needs a page table and no identity-mapped
   frame is left, `vmm_map_page` goes on through the null pointer
   (`arch/x86/vmm.c:131`, `PanicOnlyForCause`), where `articles/chapter_07.md:519`
   tests it and returns `VMM_ERR_NO_MEMORY`.

The passing run `process` excludes situations 2 and 3 by `Features`, and
`TeardownOrder` shows that the first is the only way a process is freed before
its thread is reaped.  The passing run `memory` excludes 4 to 6 by `Features`.

Smaller observations: a job that the monitor has collected keeps its slot until
the user types `jobs`; a seek beyond 2^31 - 1 succeeds and looks like an error
to user code; `SYS_READ` moves the offset although the copy to the user fails; a
memory-map entry that ends exactly at 4 GiB is lost (`discover_from_mmap`); user
pages are taken from the low frames first, so page tables, which must be low,
may run out while other frames are free.

## 7. Not modelled

* Console and its lock, output drivers: in the plan.
* Boot, descriptor tables, interrupt controller, context switch assembly, byte
  and string routines, number parsing and tokenising, stack frames and register
  contents, diagnostics: sequential code without state that a property here
  depends on.
* `kernel/toyexe.c`, `pmm_alloc_contiguous_pages_below`,
  `wait_queue_wake_all`: without callers in the running system.
* `sync_test_once` and the other boot-time tests are clients of what is modelled
  (the semaphore half of `sync_test_once` numbers its workers without protection,
  `kernel/sync.c:216`, so a tick there can make the test fail although the
  semaphore is right).
* A heap call that is preempted by another one: with no lock in `heap.c`, two
  interleaved walks corrupt the list in more ways than a model would make
  clearer; it is a listed hazard.
* Heap allocation inside `thread_create` and `process_create_empty` is taken to
  succeed in `Scheduler` and `Process`, as the code panics otherwise.
